---- MODULE Spec2Model ----
(***************************************************************************)
(* A model of the permify authorization engine's lookup-entity command     *)
(* (internal/commands/lookupEntity.go) and of its relationship readers     *)
(* (internal/repositories/memory, internal/repositories/postgres).         *)
(*                                                                         *)
(* Strings of the program are modelled as sequences: the empty string is   *)
(* the empty sequence.                                                     *)
(***************************************************************************)
EXTENDS Integers, Sequences, FiniteSets, TLC

(***************************************************************************)
(* Bounds of the model.                                                    *)
(*   MaxIds     the largest number of entity ids the enumeration returns.  *)
(*   PoolLimit  the errgroup limit; the program sets g.SetLimit(100)       *)
(*              (lookupEntity.go:135), the model runs the same pool with a *)
(*              small limit so that more ids than the limit are reachable. *)
(*   ResultCap  the capacity of the result channel; the program makes      *)
(*              make(chan string, 100) (lookupEntity.go:52, :88), scaled   *)
(*              down likewise.                                             *)
(*   MaxHead    how often the head snapshot / head schema version of the   *)
(*              store can advance while a request runs.                    *)
(*   MaxRows    the largest number of rows written to the tuple table.     *)
(*   MaxPage    the largest page size a paginated read asks for.           *)
(*   CacheCap   the number of entries the decision cache holds before it   *)
(*              must evict one.                                            *)
(*   MaxWrites  the number of tuples written before an Expand request.     *)
(***************************************************************************)
MaxIds == 3
PoolLimit == 2
ResultCap == 2
MaxHead == 1
MaxRows == 3
MaxPage == 2
CacheCap == 2
MaxWrites == 3

VARIABLES
    \* ---- the lookup request and its caller --------------------------------
    mode,           \* "execute" (batched) or "stream"
    request,        \* the *PermissionLookupEntityRequest, mutated in place
    caller,         \* the request as the caller handed it in (history)
    obtained,       \* what HeadSnapshot / HeadVersion returned (history)
    pc,             \* position of Execute / Stream
    ret,            \* its return value: "none" while running, "nil", or an error
    entityIDs,      \* Execute: the ids collected so far
    sent,           \* Stream: the ids passed to server.Send so far
    cancelled,      \* the caller's context has been cancelled
    observedCancel, \* Stream has received a cancellation error
    \* ---- the store's heads (environment) ---------------------------------
    headSnap, headVer,
    \* ---- parallelChecker and its errgroup --------------------------------
    ckPc,           \* position of the parallelChecker goroutine
    ids,            \* the ids returned by GetUniqueEntityIDsByEntityType
    enumErr,        \* the error it returned, or "nil"
    enumArgs,       \* the (tenant, type, snapshot) it was called with
    nextIdx,        \* the range loop's index into ids
    wPc,            \* per spawned closure: "none", "check", "send", "done"
    wOut,           \* per closure: what its Check returned
    wArgs,          \* per closure: the Check request it issued
    gErr,           \* the errgroup's first error, or "nil"
    \* ---- channels --------------------------------------------------------
    resultChan,     \* buffered ids
    closed,         \* resultChan has been closed
    \* ---- the relationship store and its readers --------------------------
    rows,           \* the relation_tuples table, in row-id order
    clock,          \* the id of the last committed write transaction
    qout,           \* the last reader call and what it returned
    pager,          \* a client that reads a filter's tuples page by page
    \* ---- the cache of Check decisions ------------------------------------
    impl,           \* the CommandKeyManager in use: "cache" or "noop"
    cache,          \* the entries of the cache behind CommandKeys
    kout,           \* the last GetCheckKey call and what it returned
    \* ---- the expand command ---------------------------------------------
    xstore,         \* the tuples the expand command reads, in storage order
    xout,           \* the last Expand request and the tree it returned
    \* ---- the check command ----------------------------------------------
    cschema,        \* the name of the schema the check command reads
    cstore,         \* the tuples the check command reads, in storage order
    cout,           \* the last Check request, its result, and the result of
                    \* the same request issued a second time
    \* ---- the schema compiler ---------------------------------------------
    schemaSrc,      \* the parsed schema handed to NewCompiler
    compiled,       \* what Compile returned for it
    \* ---- the schema definitions table and its writer ----------------------
    definitions,    \* the committed rows of the schema definitions table
    wtxn,           \* the WriteSchema call in progress and its transaction
    written,        \* the WriteSchema calls that have returned (history)
    observed        \* what a reader's transaction last saw of the table

lvars == <<mode, request, caller, obtained, pc, ret, entityIDs, sent, cancelled,
           observedCancel, headSnap, headVer, ckPc, ids, enumErr, enumArgs,
           nextIdx, wPc, wOut, wArgs, gErr, resultChan, closed>>

kvars == <<impl, cache, kout>>

\* The state of the engine's other components, which the store, its readers
\* and the lookup command leave alone.
xvars == <<xstore, xout>>

cvars == <<cschema, cstore, cout>>

dvars == <<schemaSrc, compiled>>

\* The check command and the compiler, which the other components leave alone.
svars == <<definitions, wtxn, written, observed>>

nvars == <<cvars, dvars, svars>>

evars == <<kvars, xvars, nvars>>

rvars == <<rows, clock, qout, pager, evars>>

vars == <<lvars, rvars>>

(***************************************************************************)
(* Values.                                                                 *)
(***************************************************************************)
EmptyString == <<>>

SnapEncode(t) == <<"snap", t>>          \* st.Encode().String()

VersionOf(n) == <<"v", n>>

\* One closure per row the enumeration read.
Slots == 1..(MaxIds + 1)

Errors == {"ERR_STORAGE", "ERR_CANCELED", "ERR_SEND"}

CallErrors == {"ERR_STORAGE"} \cup (IF cancelled THEN {"ERR_CANCELED"} ELSE {})

SendErrors == {"ERR_SEND"} \cup (IF cancelled THEN {"ERR_CANCELED"} ELSE {})

RECURSIVE removeDuplicate(_)
removeDuplicate(sliceList) ==
    IF sliceList = <<>> THEN <<>>
    ELSE LET front == removeDuplicate(SubSeq(sliceList, 1, Len(sliceList) - 1))
             item  == sliceList[Len(sliceList)]
         IN IF \E i \in 1..Len(front) : front[i] = item
            THEN front
            ELSE Append(front, item)

\* The entity-id column of the rows of one entity type: entity 1 owns two rows.
RawIdColumn(n) == [i \in 1..n |-> i] \o (IF n > 0 THEN <<1>> ELSE <<>>)

\* A reader that returns the id column as read.
GetEntityIDsAsRead(n) == RawIdColumn(n)

GetUniqueEntityIDsByEntityType(n) == removeDuplicate(RawIdColumn(n))

(***************************************************************************)
(* Execute / Stream: resolving the defaults                                *)
(***************************************************************************)
\* A resolution that takes the head snapshot whatever the request holds.
ResolveSnapshotOverwrites ==
    /\ pc = "snap"
    /\ \/ /\ request' = [request EXCEPT !.SnapToken = SnapEncode(headSnap)]
          /\ obtained' = [obtained EXCEPT !.snap = SnapEncode(headSnap)]
          /\ pc' = "schema"
          /\ UNCHANGED ret
       \/ \E e \in CallErrors :
             /\ ret' = e
             /\ pc' = "returned"
             /\ UNCHANGED <<request, obtained>>
    /\ UNCHANGED rvars
    /\ UNCHANGED <<mode, caller, entityIDs, sent, cancelled, observedCancel,
                   headSnap, headVer, ckPc, ids, enumErr, enumArgs, nextIdx,
                   wPc, wOut, wArgs, gErr, resultChan, closed>>

ResolveSnapshot ==
    /\ pc = "snap"
    /\ IF request.SnapToken = EmptyString
       THEN \/ /\ request' = [request EXCEPT !.SnapToken = SnapEncode(headSnap)]
               /\ obtained' = [obtained EXCEPT !.snap = SnapEncode(headSnap)]
               /\ pc' = "schema"
               /\ UNCHANGED ret
            \/ \E e \in CallErrors :
                  /\ ret' = e
                  /\ pc' = "returned"
                  /\ UNCHANGED <<request, obtained>>
       ELSE /\ pc' = "schema"
            /\ UNCHANGED <<request, obtained, ret>>
    /\ UNCHANGED rvars
    /\ UNCHANGED <<mode, caller, entityIDs, sent, cancelled, observedCancel,
                   headSnap, headVer, ckPc, ids, enumErr, enumArgs, nextIdx,
                   wPc, wOut, wArgs, gErr, resultChan, closed>>

\* A resolution that notes a failed HeadVersion and goes on to the fan-out.
ResolveSchemaVersionGoesOn ==
    /\ pc = "schema"
    /\ IF request.SchemaVersion = EmptyString
       THEN \/ /\ request' = [request EXCEPT !.SchemaVersion = VersionOf(headVer)]
               /\ obtained' = [obtained EXCEPT !.ver = VersionOf(headVer)]
               /\ pc' = "spawn"
               /\ UNCHANGED ret
            \/ \E e \in CallErrors :
                  /\ ret' = e
                  /\ pc' = "spawn"
                  /\ UNCHANGED <<request, obtained>>
       ELSE /\ pc' = "spawn"
            /\ UNCHANGED <<request, obtained, ret>>
    /\ UNCHANGED rvars
    /\ UNCHANGED <<mode, caller, entityIDs, sent, cancelled, observedCancel,
                   headSnap, headVer, ckPc, ids, enumErr, enumArgs, nextIdx,
                   wPc, wOut, wArgs, gErr, resultChan, closed>>

ResolveSchemaVersion ==
    /\ pc = "schema"
    /\ IF request.SchemaVersion = EmptyString
       THEN \/ /\ request' = [request EXCEPT !.SchemaVersion = VersionOf(headVer)]
               /\ obtained' = [obtained EXCEPT !.ver = VersionOf(headVer)]
               /\ pc' = "spawn"
               /\ UNCHANGED ret
            \/ \E e \in CallErrors :
                  /\ ret' = e
                  /\ pc' = "returned"
                  /\ UNCHANGED <<request, obtained>>
       ELSE /\ pc' = "spawn"
            /\ UNCHANGED <<request, obtained, ret>>
    /\ UNCHANGED rvars
    /\ UNCHANGED <<mode, caller, entityIDs, sent, cancelled, observedCancel,
                   headSnap, headVer, ckPc, ids, enumErr, enumArgs, nextIdx,
                   wPc, wOut, wArgs, gErr, resultChan, closed>>

\* make(chan string, 100); make(chan error); go command.parallelChecker(...)
SpawnChecker ==
    /\ pc = "spawn"
    /\ pc' = "loop"
    /\ ckPc' = "enum"
    /\ UNCHANGED rvars
    /\ UNCHANGED <<mode, request, caller, obtained, ret, entityIDs, sent,
                   cancelled, observedCancel, headSnap, headVer, ids, enumErr,
                   enumArgs, nextIdx, wPc, wOut, wArgs, gErr, resultChan, closed>>

(***************************************************************************)
(* parallelChecker                                                         *)
(***************************************************************************)
CkEnumerate ==
    /\ ckPc = "enum"
    /\ enumArgs' = <<request.TenantId, request.EntityType, request.SnapToken>>
    /\ \/ \E n \in 0..MaxIds :
             /\ ids' = GetUniqueEntityIDsByEntityType(n)
             /\ enumErr' = "nil"
             /\ ckPc' = "range"
       \/ \E e \in CallErrors :
             /\ ids' = <<>>
             /\ enumErr' = e
             /\ ckPc' = "enumErrSend"     \* blocks in errChan <- err
    /\ nextIdx' = 1
    /\ UNCHANGED rvars
    /\ UNCHANGED <<mode, request, caller, obtained, pc, ret, entityIDs, sent,
                   cancelled, observedCancel, headSnap, headVer, wPc, wOut,
                   wArgs, gErr, resultChan, closed>>

InFlight == {k \in Slots : wPc[k] \in {"check", "send"}}

\* An errgroup without a limit.
GoAdmitsUnlimited == TRUE

\* g.SetLimit: g.Go blocks until a slot of the semaphore is free.
GoAdmits == Cardinality(InFlight) < PoolLimit

CkGo ==
    /\ ckPc = "range"
    /\ nextIdx <= Len(ids)
    /\ GoAdmits
    /\ wPc' = [wPc EXCEPT ![nextIdx] = "check"]
    /\ nextIdx' = nextIdx + 1
    /\ UNCHANGED rvars
    /\ UNCHANGED <<mode, request, caller, obtained, pc, ret, entityIDs, sent,
                   cancelled, observedCancel, headSnap, headVer, ckPc, ids,
                   enumErr, enumArgs, wOut, wArgs, gErr, resultChan, closed>>

\* A checker that does not wait for its closures.
WaitSkipped == TRUE

\* g.Wait() returns when every closure has returned.
WaitReturns == InFlight = {}

\* A checker that closes the channel without reporting the group's error.
AfterWaitCloses(err) == "close"

\* What follows g.Wait(): report the group's error, then close the channel.
AfterWait(err) == IF err # "nil" THEN "waitErrSend" ELSE "close"

CkWait ==
    /\ ckPc = "range"
    /\ nextIdx > Len(ids)
    /\ WaitReturns
    /\ ckPc' = AfterWait(gErr)
    /\ UNCHANGED rvars
    /\ UNCHANGED <<mode, request, caller, obtained, pc, ret, entityIDs, sent,
                   cancelled, observedCancel, headSnap, headVer, ids, enumErr,
                   enumArgs, nextIdx, wPc, wOut, wArgs, gErr, resultChan, closed>>

CkClose ==
    /\ ckPc = "close"
    /\ closed' = TRUE
    /\ ckPc' = "done"
    /\ UNCHANGED rvars
    /\ UNCHANGED <<mode, request, caller, obtained, pc, ret, entityIDs, sent,
                   cancelled, observedCancel, headSnap, headVer, ids, enumErr,
                   enumArgs, nextIdx, wPc, wOut, wArgs, gErr, resultChan>>

(***************************************************************************)
(* internalCheck, run by the closure of slot k                             *)
(***************************************************************************)
\* A Check request that leaves the snapshot to the head at the time of the Check.
CheckRequestAtHead(k) ==
    [TenantId      |-> request.TenantId,
     SnapToken     |-> SnapEncode(headSnap),
     SchemaVersion |-> VersionOf(headVer),
     Depth         |-> request.Depth,
     Exclusion     |-> FALSE,
     Entity        |-> <<request.EntityType, ids[k]>>,
     Permission    |-> request.Permission,
     Subject       |-> request.Subject]

CheckRequest(k) ==
    [TenantId      |-> request.TenantId,
     SnapToken     |-> request.SnapToken,
     SchemaVersion |-> request.SchemaVersion,
     Depth         |-> request.Depth,
     Exclusion     |-> FALSE,
     Entity        |-> <<request.EntityType, ids[k]>>,
     Permission    |-> request.Permission,
     Subject       |-> request.Subject]

\* An internalCheck that emits the id whatever the decision.
EmitsAlways(result) == TRUE

\* if result.Can == RESULT_ALLOWED { resultChan <- en.GetId() }
Emits(result) == result = "ALLOWED"

WCheck(k) ==
    /\ wPc[k] = "check"
    /\ wArgs' = [wArgs EXCEPT ![k] = CheckRequest(k)]
    /\ \E out \in {"ALLOWED", "DENIED"} \cup CallErrors :
          /\ wOut' = [wOut EXCEPT ![k] = out]
          /\ IF out \in {"ALLOWED", "DENIED"}
             THEN /\ wPc' = [wPc EXCEPT ![k] = IF Emits(out) THEN "send" ELSE "done"]
                  /\ UNCHANGED gErr
             ELSE /\ wPc' = [wPc EXCEPT ![k] = "done"]
                  /\ gErr' = IF gErr = "nil" THEN out ELSE gErr
    /\ UNCHANGED rvars
    /\ UNCHANGED <<mode, request, caller, obtained, pc, ret, entityIDs, sent,
                   cancelled, observedCancel, headSnap, headVer, ckPc, ids,
                   enumErr, enumArgs, nextIdx, resultChan, closed>>

\* An unbounded result channel.
ChanUnbounded == TRUE

\* A send on the buffered channel proceeds while the buffer is not full.
ChanHasRoom == Len(resultChan) < ResultCap

\* resultChan <- en.GetId()
WSend(k) ==
    /\ wPc[k] = "send"
    /\ ChanHasRoom
    /\ resultChan' = Append(resultChan, ids[k])
    /\ wPc' = [wPc EXCEPT ![k] = "done"]
    /\ UNCHANGED rvars
    /\ UNCHANGED <<mode, request, caller, obtained, pc, ret, entityIDs, sent,
                   cancelled, observedCancel, headSnap, headVer, ckPc, ids,
                   enumErr, enumArgs, nextIdx, wOut, wArgs, gErr, closed>>

(***************************************************************************)
(* Execute: for entityID := range resultsChan                              *)
(***************************************************************************)
ExecuteRecv ==
    /\ mode = "execute"
    /\ pc = "loop"
    /\ resultChan # <<>>
    /\ entityIDs' = Append(entityIDs, Head(resultChan))
    /\ resultChan' = Tail(resultChan)
    /\ UNCHANGED rvars
    /\ UNCHANGED <<mode, request, caller, obtained, pc, ret, sent, cancelled,
                   observedCancel, headSnap, headVer, ckPc, ids, enumErr,
                   enumArgs, nextIdx, wPc, wOut, wArgs, gErr, closed>>

ExecuteReturn ==
    /\ mode = "execute"
    /\ pc = "loop"
    /\ resultChan = <<>>
    /\ closed
    /\ ret' = "nil"
    /\ pc' = "returned"
    /\ UNCHANGED rvars
    /\ UNCHANGED <<mode, request, caller, obtained, entityIDs, sent, cancelled,
                   observedCancel, headSnap, headVer, ckPc, ids, enumErr,
                   enumArgs, nextIdx, wPc, wOut, wArgs, gErr, resultChan, closed>>

(***************************************************************************)
(* Stream: for { select { case <-resultChan ... case <-errChan ... } }      *)
(***************************************************************************)
\* A Stream that notes a failed Send and keeps streaming.
OnSendKeepGoing(r) ==
    /\ observedCancel' = (observedCancel \/ r = "ERR_CANCELED")
    /\ UNCHANGED <<pc, ret>>

\* server.Send returned r for the id just received.
OnSend(r) ==
    IF r = "nil"
    THEN UNCHANGED <<pc, ret, observedCancel>>
    ELSE /\ ret' = r
         /\ pc' = "returned"
         /\ observedCancel' = (observedCancel \/ r = "ERR_CANCELED")

StreamRecvId ==
    /\ mode = "stream"
    /\ pc = "loop"
    /\ resultChan # <<>>
    /\ sent' = Append(sent, Head(resultChan))
    /\ resultChan' = Tail(resultChan)
    /\ \E r \in {"nil"} \cup SendErrors : OnSend(r)
    /\ UNCHANGED rvars
    /\ UNCHANGED <<mode, request, caller, obtained, entityIDs, cancelled,
                   headSnap, headVer, ckPc, ids, enumErr, enumArgs, nextIdx,
                   wPc, wOut, wArgs, gErr, closed>>

StreamRecvClosed ==
    /\ mode = "stream"
    /\ pc = "loop"
    /\ resultChan = <<>>
    /\ closed
    /\ ret' = "nil"
    /\ pc' = "returned"
    /\ UNCHANGED rvars
    /\ UNCHANGED <<mode, request, caller, obtained, entityIDs, sent, cancelled,
                   observedCancel, headSnap, headVer, ckPc, ids, enumErr,
                   enumArgs, nextIdx, wPc, wOut, wArgs, gErr, resultChan, closed>>

\* The error parallelChecker is blocked sending on the unbuffered errChan.
PendingErr == IF ckPc = "enumErrSend" THEN enumErr ELSE gErr

\* A Stream that drops what it receives on errChan.
OnErrRecvDropped(err) ==
    /\ observedCancel' = (observedCancel \/ err = "ERR_CANCELED")
    /\ UNCHANGED <<pc, ret>>

\* case err, ok := <-errChan: if ok { return err }
OnErrRecv(err) ==
    /\ ret' = err
    /\ pc' = "returned"
    /\ observedCancel' = (observedCancel \/ err = "ERR_CANCELED")

StreamRecvErr ==
    /\ mode = "stream"
    /\ pc = "loop"
    /\ ckPc \in {"enumErrSend", "waitErrSend"}
    /\ OnErrRecv(PendingErr)
    /\ ckPc' = IF ckPc = "enumErrSend" THEN "range" ELSE "close"
    /\ UNCHANGED rvars
    /\ UNCHANGED <<mode, request, caller, obtained, entityIDs, sent, cancelled,
                   headSnap, headVer, ids, enumErr, enumArgs, nextIdx, wPc,
                   wOut, wArgs, gErr, resultChan, closed>>

(***************************************************************************)
(* Environment: the caller cancels; writers advance the heads              *)
(***************************************************************************)
Cancel ==
    /\ ~cancelled
    /\ pc # "returned"
    /\ cancelled' = TRUE
    /\ UNCHANGED rvars
    /\ UNCHANGED <<mode, request, caller, obtained, pc, ret, entityIDs, sent,
                   observedCancel, headSnap, headVer, ckPc, ids, enumErr,
                   enumArgs, nextIdx, wPc, wOut, wArgs, gErr, resultChan, closed>>

AdvanceHeads ==
    /\ headSnap < MaxHead
    /\ pc # "returned"
    /\ headSnap' = headSnap + 1
    /\ headVer' = headVer + 1
    /\ UNCHANGED rvars
    /\ UNCHANGED <<mode, request, caller, obtained, pc, ret, entityIDs, sent,
                   cancelled, observedCancel, ckPc, ids, enumErr, enumArgs,
                   nextIdx, wPc, wOut, wArgs, gErr, resultChan, closed>>

(***************************************************************************)
(* The lookup specification                                                *)
(***************************************************************************)
Requests ==
    [TenantId      : {"t1"},
     EntityType    : {"doc"},
     Permission    : {"read"},
     Subject       : {<<"user", 1>>},
     Depth         : {20},
     SnapToken     : {EmptyString, SnapEncode(0)},
     SchemaVersion : {EmptyString, VersionOf(0)}]

NoQuery ==
    [op |-> "none", backend |-> "none", tenant |-> "", filter |-> <<>>,
     snap |-> <<>>, nrows |-> 0, tuples |-> <<>>, err |-> "nil",
     typ |-> "", size |-> 0, token |-> <<>>, ct |-> <<>>, ids |-> <<>>]

NoPager ==
    [state |-> "idle", backend |-> "none", tenant |-> "", filter |-> <<>>,
     snap |-> <<>>, size |-> 0, token |-> <<>>, pages |-> <<>>, err |-> "nil"]

NoWrite == [state |-> "idle", call |-> 0, defs |-> <<>>, next |-> 1, txn |-> {}]

\* An empty schema definitions table, no WriteSchema call, nothing read.
InitSchemaTable ==
    /\ definitions = {}
    /\ wtxn = NoWrite
    /\ written = <<>>
    /\ observed = {}

InitTable ==
    /\ rows = <<>>
    /\ clock = 0
    /\ qout = NoQuery
    /\ pager = NoPager
    /\ InitSchemaTable

NoCheck ==
    [op |-> "none", entity |-> [Type |-> "", Id |-> ""], permission |-> "",
     subject |-> [Type |-> "", Id |-> "", Relation |-> ""], depth |-> 0,
     fault |-> {}, order |-> "none",
     result |-> [can |-> "none", err |-> "nil", exceeded |-> FALSE, calls |-> {}],
     again |-> [can |-> "none", err |-> "nil", exceeded |-> FALSE, calls |-> {}],
     operand |-> [can |-> "none", err |-> "nil", exceeded |-> FALSE, calls |-> {}]]

\* No Check request, over an empty store.
InitCheck ==
    /\ cschema = "drive"
    /\ cstore = <<>>
    /\ cout = NoCheck

NoSchema == <<>>

NoCompile == [op |-> "none", definitions |-> <<>>, err |-> "nil"]

\* No schema handed to the compiler.
InitCompiler ==
    /\ schemaSrc = NoSchema
    /\ compiled = NoCompile

\* An empty table, with the check command and the compiler idle.
InitStore == InitTable /\ InitCheck /\ InitCompiler

NoCheckRequest ==
    [TenantId |-> "", SnapToken |-> EmptyString, SchemaVersion |-> EmptyString,
     Depth |-> 0, Exclusion |-> FALSE, Entity |-> <<>>, Permission |-> "",
     Subject |-> <<>>]

NoGet ==
    [op |-> "none",
     req |-> [TenantId |-> "", SchemaVersion |-> "", SnapToken |-> "",
              Entity |-> [Type |-> "", Id |-> ""], Permission |-> "",
              Subject |-> [Type |-> "", Id |-> "", Relation |-> ""],
              Depth |-> 0, Exclusion |-> FALSE],
     key |-> <<>>, resp |-> "nil", found |-> FALSE, by |-> <<>>]

\* A CommandKeys manager over an empty cache, not called yet.
InitCache ==
    /\ impl = "cache"
    /\ cache = {}
    /\ kout = NoGet

NoExpand ==
    [op |-> "none", entity |-> [Type |-> "", Id |-> ""], permission |-> "",
     tree |-> [node |-> "none"]]

\* No Expand request, over an empty store.
InitExpand ==
    /\ xstore = <<>>
    /\ xout = NoExpand

InitRequest ==
    /\ mode \in {"execute", "stream"}
    /\ request \in Requests
    /\ caller = request
    /\ obtained = [snap |-> EmptyString, ver |-> EmptyString]
    /\ pc = "snap"
    /\ ret = "none"
    /\ entityIDs = <<>>
    /\ sent = <<>>
    /\ cancelled = FALSE
    /\ observedCancel = FALSE
    /\ headSnap = 0
    /\ headVer = 0
    /\ ckPc = "idle"
    /\ ids = <<>>
    /\ enumErr = "nil"
    /\ enumArgs = <<>>
    /\ nextIdx = 1
    /\ wPc = [k \in Slots |-> "none"]
    /\ wOut = [k \in Slots |-> "none"]
    /\ wArgs = [k \in Slots |-> NoCheckRequest]
    /\ gErr = "nil"
    /\ resultChan = <<>>
    /\ closed = FALSE

InitLookup == InitRequest /\ InitStore /\ InitCache /\ InitExpand

\* Steps shared by Execute and Stream: the defaults, parallelChecker and
\* its closures.
CommonStep ==
    \/ ResolveSnapshot
    \/ ResolveSchemaVersion
    \/ SpawnChecker
    \/ CkEnumerate
    \/ CkGo
    \/ CkWait
    \/ CkClose
    \/ \E k \in Slots : WCheck(k)
    \/ \E k \in Slots : WSend(k)

ExecuteStep == ExecuteRecv \/ ExecuteReturn

StreamStep == StreamRecvId \/ StreamRecvClosed \/ StreamRecvErr

\* The steps of the program itself (not of its environment).
LookupStep == CommonStep \/ ExecuteStep \/ StreamStep

Environment == Cancel \/ AdvanceHeads

NextLookup == LookupStep \/ Environment

SpecLookup == InitLookup /\ [][NextLookup]_vars

\* Stream alone, on a request that leaves snapshot and schema version to the
\* heads, with the goroutines scheduled fairly: a step of the program that
\* stays possible is eventually taken.
InitStream ==
    /\ InitLookup
    /\ mode = "stream"
    /\ request.SnapToken = EmptyString
    /\ request.SchemaVersion = EmptyString

NextStream == CommonStep \/ StreamStep \/ Environment

FairStream == InitStream /\ [][NextStream]_vars /\ WF_vars(CommonStep \/ StreamStep)

\* Execute alone, with the goroutines scheduled fairly.
InitExecute == InitLookup /\ mode = "execute"

NextExecute == CommonStep \/ ExecuteStep \/ Environment

FairExecute ==
    InitExecute /\ [][NextExecute]_vars /\ WF_vars(CommonStep \/ ExecuteStep)

(***************************************************************************)
(* The relationship store and its two readers                              *)
(***************************************************************************)
Tenants == {"t1", "t2"}

EntityIds == {1, 2}

\* A write transaction commits one tuple; its row id is the next serial and
\* its transaction id the next value of the clock.
NewRow(tenant, eid) ==
    [ID              |-> Len(rows) + 1,
     TenantID        |-> tenant,
     EntityType      |-> "doc",
     EntityID        |-> eid,
     Relation        |-> "owner",
     SubjectType     |-> "user",
     SubjectID       |-> 1,
     SubjectRelation |-> "",
     CreatedTx       |-> clock + 1]

\* RelationTuple.ToTuple
ToTuple(r) ==
    [Entity   |-> [Type |-> r.EntityType, Id |-> r.EntityID],
     Relation |-> r.Relation,
     Subject  |-> [Type |-> r.SubjectType, Id |-> r.SubjectID,
                   Relation |-> r.SubjectRelation]]

\* TupleFilter: an empty field is a wildcard.
FilterMatches(f, r) ==
    /\ f.Entity.Type = "" \/ r.EntityType = f.Entity.Type
    /\ f.Entity.Ids = {} \/ r.EntityID \in f.Entity.Ids
    /\ f.Relation = "" \/ r.Relation = f.Relation
    /\ f.Subject.Type = "" \/ r.SubjectType = f.Subject.Type
    /\ f.Subject.Ids = {} \/ r.SubjectID \in f.Subject.Ids
    /\ f.Subject.Relation = "" \/ r.SubjectRelation = f.Subject.Relation

NoSubject == [Type |-> "", Ids |-> {}, Relation |-> ""]

Filters ==
    {[Entity |-> [Type |-> "", Ids |-> {}], Relation |-> "", Subject |-> NoSubject],
     [Entity |-> [Type |-> "doc", Ids |-> {}], Relation |-> "", Subject |-> NoSubject],
     [Entity |-> [Type |-> "doc", Ids |-> {1}], Relation |-> "owner", Subject |-> NoSubject],
     [Entity |-> [Type |-> "doc", Ids |-> {}], Relation |-> "parent", Subject |-> NoSubject]}

\* snapshot.EncodedToken{Value: snap}.Decode()
SnapDecode(snap) ==
    IF Len(snap) = 2 /\ snap[1] = "snap"
    THEN [err |-> "nil", value |-> snap[2]]
    ELSE [err |-> "RAW_TOKEN_DECODE", value |-> 0]

SnapInputs == {SnapEncode(t) : t \in 0..MaxRows} \cup {<<"garbage">>}

\* utils.SnapshotQuery: the rows created at or before the snapshot.
SnapshotQuery(r, value) == r.CreatedTx <= value

\* The rows of a tenant that a filter selects, in row order.
MatchingRows(table, tenant, f) ==
    SelectSeq(table, LAMBDA r : r.TenantID = tenant /\ FilterMatches(f, r))

\* The rows among them that a snapshot shows.
RowsUnderSnapshot(table, value) ==
    SelectSeq(table, LAMBDA r : SnapshotQuery(r, value))

Tuples(rs) == [i \in 1..Len(rs) |-> ToTuple(rs[i])]

\* Where a call of the store can fail.
MemoryFaults == {"none", "get", "type"}

PostgresFaults == {"none", "begin", "builder", "query", "scan", "rows", "commit"}

\* memory.RelationshipReader.QueryRelationships
MemoryQueryRelationships(table, tenant, f, snap, fault) ==
    IF fault = "get" THEN [tuples |-> <<>>, err |-> "ERROR_CODE_EXECUTION"]
    ELSE LET found == MatchingRows(table, tenant, f)
         IN IF fault = "type" /\ found # <<>>
            THEN [tuples |-> <<>>, err |-> "ERROR_CODE_TYPE_CONVERSATION"]
            ELSE [tuples |-> Tuples(found), err |-> "nil"]

\* postgres.RelationshipReader.QueryRelationships
PostgresQueryRelationships(table, tenant, f, snap, fault) ==
    LET st == SnapDecode(snap)
    IN IF st.err # "nil" THEN [tuples |-> <<>>, err |-> st.err]
       ELSE IF fault = "begin" THEN [tuples |-> <<>>, err |-> "RAW_BEGIN_TX"]
       ELSE IF fault = "builder" THEN [tuples |-> <<>>, err |-> "ERROR_CODE_SQL_BUILDER"]
       ELSE IF fault = "query" THEN [tuples |-> <<>>, err |-> "ERROR_CODE_EXECUTION"]
       ELSE LET found == RowsUnderSnapshot(MatchingRows(table, tenant, f), st.value)
            IN IF fault = "scan" /\ found # <<>>
               THEN [tuples |-> <<>>, err |-> "RAW_SCAN"]
               ELSE IF fault = "rows" THEN [tuples |-> <<>>, err |-> "RAW_ROWS"]
               ELSE IF fault = "commit" THEN [tuples |-> <<>>, err |-> "RAW_COMMIT"]
               ELSE [tuples |-> Tuples(found), err |-> "nil"]

\* ---- continuous tokens --------------------------------------------------
Digits == <<"0", "1", "2", "3", "4", "5", "6", "7", "8", "9">>

\* strconv.FormatUint(n, 10): the decimal digits of n, as characters.
RECURSIVE FormatUint(_)
FormatUint(n) ==
    IF n < 10 THEN <<Digits[n + 1]>>
    ELSE Append(FormatUint(n \div 10), Digits[(n % 10) + 1])

IsDigit(c) == \E d \in 1..Len(Digits) : Digits[d] = c

DigitValue(c) == (CHOOSE d \in 1..Len(Digits) : Digits[d] = c) - 1

RECURSIVE DigitsValue(_)
DigitsValue(s) ==
    IF s = <<>> THEN 0
    ELSE 10 * DigitsValue(SubSeq(s, 1, Len(s) - 1)) + DigitValue(s[Len(s)])

\* A parse that reads text that is not a number as zero.
ParseUintLenient(s) ==
    IF s = <<>> \/ \E i \in 1..Len(s) : ~IsDigit(s[i])
    THEN [err |-> "nil", value |-> 0]
    ELSE [err |-> "nil", value |-> DigitsValue(s)]

\* strconv.ParseUint(s, 10, 64): fails on the empty string and on any
\* character that is not a digit.
ParseUint(s) ==
    IF s = <<>> \/ \E i \in 1..Len(s) : ~IsDigit(s[i])
    THEN [err |-> "RAW_PARSE_UINT", value |-> 0]
    ELSE [err |-> "nil", value |-> DigitsValue(s)]

\* utils.NewContinuousToken(value).Encode(): the base64 text of the value,
\* written here as the value behind a marker.
ContinuousEncode(value) == <<"b64">> \o value

\* utils.NewNoopContinuousToken().Encode(): the empty token.
NoopToken == EmptyString

\* A nil database.EncodedContinuousToken.
NilToken == <<"nil">>

\* utils.EncodedContinuousToken{Value: token}.Decode()
ContinuousDecode(token) ==
    IF Len(token) >= 1 /\ token[1] = "b64"
    THEN [err |-> "nil", value |-> Tail(token)]
    ELSE [err |-> "RAW_TOKEN_DECODE", value |-> <<>>]

\* The continuous tokens a caller passes: none, the token of a row id, text
\* that is not base64, and base64 text that is not a number.
TokenInputs ==
    {NoopToken, <<"!">>, ContinuousEncode(<<"x">>)}
        \cup {ContinuousEncode(FormatUint(i)) : i \in 1..MaxRows}

PageSizes == 1..MaxPage

\* ---- the in-memory table's index ----------------------------------------
\* The byte order of the strings that occur as index keys.
Rank(s) ==
    CASE s = "" -> 0
      [] s = "doc" -> 1
      [] s = "folder" -> 2
      [] s = "t1" -> 3
      [] s = "t2" -> 4

\* utils.GetIndexNameAndArgsByFilters: the arguments for the index on
\* (tenant, entity type), the index GetUniqueEntityIDsByEntityType names.
GetIndexNameAndArgsByFilters(tenant, f) == <<tenant, f.Entity.Type>>

\* The key of a row in that index is not below the arguments.
KeyAtLeast(r, args) ==
    \/ Rank(r.TenantID) > Rank(args[1])
    \/ /\ Rank(r.TenantID) = Rank(args[1])
       /\ Rank(r.EntityType) >= Rank(args[2])

\* One row precedes another in the index.
IndexBefore(a, b) ==
    \/ Rank(a.TenantID) < Rank(b.TenantID)
    \/ /\ a.TenantID = b.TenantID
       /\ \/ Rank(a.EntityType) < Rank(b.EntityType)
          \/ a.EntityType = b.EntityType /\ a.ID < b.ID

Without(rs, i) == SubSeq(rs, 1, i - 1) \o SubSeq(rs, i + 1, Len(rs))

\* The rows in the order of the index.
RECURSIVE InIndexOrder(_)
InIndexOrder(rs) ==
    IF rs = <<>> THEN <<>>
    ELSE LET i == CHOOSE k \in 1..Len(rs) :
                     \A j \in 1..Len(rs) : j = k \/ IndexBefore(rs[k], rs[j])
         IN <<rs[i]>> \o InIndexOrder(Without(rs, i))

\* sort.Slice(tup, func(i, j) bool { return tup[i].ID < tup[j].ID }), and
\* ORDER BY id.
RECURSIVE SortByID(_)
SortByID(rs) ==
    IF rs = <<>> THEN <<>>
    ELSE LET i == CHOOSE k \in 1..Len(rs) :
                     \A j \in 1..Len(rs) : rs[k].ID <= rs[j].ID
         IN <<rs[i]>> \o SortByID(Without(rs, i))

\* txn.Get(table, index, args...): the rows whose key equals the arguments.
TxnGet(table, args) ==
    SelectSeq(InIndexOrder(table),
              LAMBDA r : r.TenantID = args[1] /\ r.EntityType = args[2])

\* txn.LowerBound(table, index, args...): every row whose key is not below
\* the arguments, to the end of the index.
TxnLowerBound(table, args) ==
    SelectSeq(InIndexOrder(table), LAMBDA r : KeyAtLeast(r, args))

\* memdb.NewFilterIterator(result, utils.FilterQuery(filter))
FilterIterator(rs, f) == SelectSeq(rs, LAMBDA r : FilterMatches(f, r))

FirstN(s, n) == SubSeq(s, 1, IF Len(s) < n THEN Len(s) ELSE n)

ReadFailed(ct, err) == [tuples |-> <<>>, ct |-> ct, err |-> err]

\* The page both readers cut from the rows at or after the lower bound:
\* pageSize tuples and the id of the next row as the token, or the rest and
\* the empty token.
PageOf(tuples, size) ==
    IF Len(tuples) > size
    THEN [tuples |-> Tuples(FirstN(tuples, size)),
          ct |-> ContinuousEncode(FormatUint(tuples[size + 1].ID)),
          err |-> "nil"]
    ELSE [tuples |-> Tuples(tuples), ct |-> NoopToken, err |-> "nil"]

\* memory.RelationshipReader.ReadRelationships
MemoryReadRelationships(table, tenant, f, snap, size, token, fault) ==
    LET t  == ContinuousDecode(token)
        lb == IF token = EmptyString
              THEN [err |-> "nil", value |-> 0]
              ELSE ParseUint(t.value)
    IN IF token # EmptyString /\ t.err # "nil" THEN ReadFailed(NoopToken, t.err)
       ELSE IF lb.err # "nil"
            THEN ReadFailed(NoopToken, "ERROR_CODE_INVALID_CONTINUOUS_TOKEN")
       ELSE IF fault = "get" THEN ReadFailed(NoopToken, "ERROR_CODE_EXECUTION")
       ELSE LET result == TxnLowerBound(table, GetIndexNameAndArgsByFilters(tenant, f))
                tup    == SortByID(FilterIterator(result, f))
            IN IF fault = "type" /\ tup # <<>>
               THEN ReadFailed(NoopToken, "ERROR_CODE_TYPE_CONVERSATION")
               ELSE PageOf(SelectSeq(tup, LAMBDA r : r.ID >= lb.value), size)

\* postgres.RelationshipReader.ReadRelationships
PostgresReadRelationships(table, tenant, f, snap, size, token, fault) ==
    LET st == SnapDecode(snap)
        t  == ContinuousDecode(token)
        v  == IF token = EmptyString
              THEN [err |-> "nil", value |-> 0]
              ELSE ParseUint(t.value)
    IN IF st.err # "nil" THEN ReadFailed(NilToken, st.err)
       ELSE IF fault = "begin" THEN ReadFailed(NilToken, "RAW_BEGIN_TX")
       ELSE IF token # EmptyString /\ t.err # "nil" THEN ReadFailed(NilToken, t.err)
       ELSE IF v.err # "nil"
            THEN ReadFailed(NilToken, "ERROR_CODE_INVALID_CONTINUOUS_TOKEN")
       ELSE IF fault = "builder" THEN ReadFailed(NoopToken, "ERROR_CODE_SQL_BUILDER")
       ELSE IF fault = "query" THEN ReadFailed(NoopToken, "ERROR_CODE_EXECUTION")
       ELSE LET selected == SelectSeq(
                                RowsUnderSnapshot(MatchingRows(table, tenant, f), st.value),
                                LAMBDA r : r.ID >= v.value)
                tuples   == FirstN(SortByID(selected), size + 1)
            IN IF fault = "scan" /\ tuples # <<>> THEN ReadFailed(NilToken, "RAW_SCAN")
               ELSE IF fault = "rows" THEN ReadFailed(NilToken, "RAW_ROWS")
               ELSE IF fault = "commit" THEN ReadFailed(NilToken, "RAW_COMMIT")
               ELSE PageOf(tuples, size)

EntityTypes == {"doc", "folder"}

EntityIDColumn(rs) == [i \in 1..Len(rs) |-> rs[i].EntityID]

\* memory.RelationshipReader.GetUniqueEntityIDsByEntityType
MemoryGetUniqueEntityIDs(table, tenant, typ, snap, fault) ==
    IF fault = "get" THEN [ids |-> <<>>, err |-> "ERROR_CODE_EXECUTION"]
    ELSE LET it == TxnGet(table, <<tenant, typ>>)
         IN IF fault = "type" /\ it # <<>>
            THEN [ids |-> <<>>, err |-> "ERROR_CODE_TYPE_CONVERSATION"]
            ELSE [ids |-> removeDuplicate(EntityIDColumn(it)), err |-> "nil"]

\* The orders in which SELECT DISTINCT may deliver a set of values.
Orderings(S) ==
    {s \in [1..Cardinality(S) -> S] : \A i, j \in 1..Cardinality(S) : s[i] = s[j] => i = j}

\* SELECT DISTINCT entity_id ... WHERE entity_type = typ AND tenant_id =
\* tenantID, under the snapshot: the distinct values, in no particular order.
SelectDistinctEntityID(table, tenant, typ, value) ==
    {r.EntityID : r \in {table[i] : i \in {j \in 1..Len(table) :
        /\ table[j].TenantID = tenant
        /\ table[j].EntityType = typ
        /\ SnapshotQuery(table[j], value)}}}

\* postgres.RelationshipReader.GetUniqueEntityIDsByEntityType, delivering
\* the distinct ids in the order `order`.
PostgresGetUniqueEntityIDs(table, tenant, typ, snap, fault, order) ==
    LET st == SnapDecode(snap)
    IN IF st.err # "nil" THEN [ids |-> <<>>, err |-> st.err]
       ELSE IF fault = "begin" THEN [ids |-> <<>>, err |-> "RAW_BEGIN_TX"]
       ELSE IF fault = "builder" THEN [ids |-> <<>>, err |-> "ERROR_CODE_SQL_BUILDER"]
       ELSE IF fault = "query" THEN [ids |-> <<>>, err |-> "ERROR_CODE_EXECUTION"]
       ELSE IF fault = "scan" /\ order # <<>> THEN [ids |-> <<>>, err |-> "RAW_SCAN"]
       ELSE IF fault = "rows" THEN [ids |-> <<>>, err |-> "RAW_ROWS"]
       ELSE IF fault = "commit" THEN [ids |-> <<>>, err |-> "RAW_COMMIT"]
       ELSE [ids |-> order, err |-> "nil"]

\* WriteRelationships of one tuple, committed as one transaction.
WriteRelationship ==
    /\ qout.op = "none"
    /\ pager.state = "idle"
    /\ Len(rows) < MaxRows
    /\ \E tenant \in Tenants, eid \in EntityIds :
          rows' = Append(rows, NewRow(tenant, eid))
    /\ clock' = clock + 1
    /\ UNCHANGED <<qout, pager>>
    /\ UNCHANGED evars
    /\ UNCHANGED lvars

Called(op, backend, tenant, f, snap) ==
    [NoQuery EXCEPT !.op = op, !.backend = backend, !.tenant = tenant,
                    !.filter = f, !.snap = snap, !.nrows = Len(rows)]

QueryMemory ==
    /\ qout.op = "none"
    /\ \E tenant \in Tenants, f \in Filters, snap \in SnapInputs, fault \in MemoryFaults :
          LET res == MemoryQueryRelationships(rows, tenant, f, snap, fault)
          IN qout' = [Called("QueryRelationships", "memory", tenant, f, snap)
                         EXCEPT !.tuples = res.tuples, !.err = res.err]
    /\ UNCHANGED <<rows, clock, pager>>
    /\ UNCHANGED evars
    /\ UNCHANGED lvars

QueryPostgres ==
    /\ qout.op = "none"
    /\ \E tenant \in Tenants, f \in Filters, snap \in SnapInputs, fault \in PostgresFaults :
          LET res == PostgresQueryRelationships(rows, tenant, f, snap, fault)
          IN qout' = [Called("QueryRelationships", "postgres", tenant, f, snap)
                         EXCEPT !.tuples = res.tuples, !.err = res.err]
    /\ UNCHANGED <<rows, clock, pager>>
    /\ UNCHANGED evars
    /\ UNCHANGED lvars

\* A fault is injected into first-page reads of the smallest page only.
FaultAdmitted(fault, size, token) ==
    fault = "none" \/ (size = 1 /\ token = EmptyString)

ReadMemory ==
    /\ qout.op = "none"
    /\ \E tenant \in Tenants, f \in Filters, snap \in SnapInputs,
          size \in PageSizes, token \in TokenInputs, fault \in MemoryFaults :
          /\ FaultAdmitted(fault, size, token)
          /\ LET res == MemoryReadRelationships(rows, tenant, f, snap, size, token, fault)
             IN qout' = [Called("ReadRelationships", "memory", tenant, f, snap)
                            EXCEPT !.size = size, !.token = token,
                                   !.tuples = res.tuples, !.ct = res.ct,
                                   !.err = res.err]
    /\ UNCHANGED <<rows, clock, pager>>
    /\ UNCHANGED evars
    /\ UNCHANGED lvars

ReadPostgres ==
    /\ qout.op = "none"
    /\ \E tenant \in Tenants, f \in Filters, snap \in SnapInputs,
          size \in PageSizes, token \in TokenInputs, fault \in PostgresFaults :
          /\ FaultAdmitted(fault, size, token)
          /\ LET res == PostgresReadRelationships(rows, tenant, f, snap, size, token, fault)
             IN qout' = [Called("ReadRelationships", "postgres", tenant, f, snap)
                            EXCEPT !.size = size, !.token = token,
                                   !.tuples = res.tuples, !.ct = res.ct,
                                   !.err = res.err]
    /\ UNCHANGED <<rows, clock, pager>>
    /\ UNCHANGED evars
    /\ UNCHANGED lvars

UniqueMemory ==
    /\ qout.op = "none"
    /\ \E tenant \in Tenants, typ \in EntityTypes, snap \in SnapInputs,
          fault \in MemoryFaults :
          LET res == MemoryGetUniqueEntityIDs(rows, tenant, typ, snap, fault)
          IN qout' = [Called("GetUniqueEntityIDsByEntityType", "memory", tenant,
                             <<>>, snap)
                         EXCEPT !.typ = typ, !.ids = res.ids, !.err = res.err]
    /\ UNCHANGED <<rows, clock, pager>>
    /\ UNCHANGED evars
    /\ UNCHANGED lvars

UniquePostgres ==
    /\ qout.op = "none"
    /\ \E tenant \in Tenants, typ \in EntityTypes, snap \in SnapInputs,
          fault \in PostgresFaults :
          \E order \in Orderings(SelectDistinctEntityID(rows, tenant, typ,
                                                        SnapDecode(snap).value)) :
             LET res == PostgresGetUniqueEntityIDs(rows, tenant, typ, snap, fault, order)
             IN qout' = [Called("GetUniqueEntityIDsByEntityType", "postgres",
                                tenant, <<>>, snap)
                            EXCEPT !.typ = typ, !.ids = res.ids, !.err = res.err]
    /\ UNCHANGED <<rows, clock, pager>>
    /\ UNCHANGED evars
    /\ UNCHANGED lvars

NextReader ==
    \/ WriteRelationship
    \/ QueryMemory
    \/ QueryPostgres
    \/ ReadMemory
    \/ ReadPostgres
    \/ UniqueMemory
    \/ UniquePostgres

\* The store with its readers; no lookup request runs. A run writes any
\* number of tuples and then issues one reader call.
InitReader ==
    /\ InitLookup
    /\ mode = "execute"
    /\ request.SnapToken = EmptyString
    /\ request.SchemaVersion = EmptyString

SpecReader == InitReader /\ [][NextReader]_vars

(***************************************************************************)
(* A client that pages through ReadRelationships                           *)
(***************************************************************************)
\* The client fixes back end, tenant, filter and page size, takes the head
\* snapshot, and starts from the empty token; the store no longer changes.
StartPaging ==
    /\ pager.state = "idle"
    /\ \E backend \in {"memory", "postgres"}, tenant \in Tenants, f \in Filters,
          size \in PageSizes :
          pager' = [NoPager EXCEPT !.state = "reading", !.backend = backend,
                                   !.tenant = tenant, !.filter = f,
                                   !.snap = SnapEncode(clock), !.size = size,
                                   !.token = EmptyString]
    /\ UNCHANGED <<rows, clock, qout>>
    /\ UNCHANGED evars
    /\ UNCHANGED lvars

\* The client's next step after a call returned `res`: keep the page and
\* pass the returned token to the next call, or stop at the empty token or
\* at an error.
Paged(res) ==
    [pager EXCEPT !.pages = Append(pager.pages, res.tuples),
                  !.token = res.ct,
                  !.err = res.err,
                  !.state = IF res.err # "nil" \/ res.ct = NoopToken
                            THEN "done" ELSE "reading"]

PageMemory ==
    /\ pager.state = "reading"
    /\ pager.backend = "memory"
    /\ pager' = Paged(MemoryReadRelationships(rows, pager.tenant, pager.filter,
                                              pager.snap, pager.size, pager.token,
                                              "none"))
    /\ UNCHANGED <<rows, clock, qout>>
    /\ UNCHANGED evars
    /\ UNCHANGED lvars

PagePostgres ==
    /\ pager.state = "reading"
    /\ pager.backend = "postgres"
    /\ pager' = Paged(PostgresReadRelationships(rows, pager.tenant, pager.filter,
                                                pager.snap, pager.size, pager.token,
                                                "none"))
    /\ UNCHANGED <<rows, clock, qout>>
    /\ UNCHANGED evars
    /\ UNCHANGED lvars

NextPaging == WriteRelationship \/ StartPaging \/ PageMemory \/ PagePostgres

SpecPaging == InitReader /\ [][NextPaging]_vars

(***************************************************************************)
(* The cache keys of Check decisions (internal/keys/command.go)            *)
(*                                                                         *)
(* The fields of a Check request are strings of the program, written here  *)
(* as TLA+ strings, so that fmt.Sprintf is string concatenation.           *)
(***************************************************************************)
\* The Check requests of the model. Tenant ids, schema versions and entity
\* and subject ids are free text: some contain the characters the key
\* format uses as delimiters.
CheckRequests ==
    [TenantId      : {"a", "a_b"},
     SchemaVersion : {"c", "b_c"},
     SnapToken     : {"s1", "s2"},
     Entity        : [Type : {"doc"}, Id : {"1", "1#read@user:2"}],
     Permission    : {"read"},
     Subject       : [Type : {"user"}, Id : {"2", "2#read@user:2"}, Relation : {""}],
     Depth         : {19, 20},
     Exclusion     : BOOLEAN]

\* tuple.EntityAndRelationToString: "type:id#relation".
EntityAndRelationToString(entity, relation) ==
    entity.Type \o ":" \o entity.Id \o "#" \o relation

\* tuple.SubjectToString: "type:id" for a user, "type:id#relation" for a
\* userset.
SubjectToString(subject) ==
    IF subject.Relation = ""
    THEN subject.Type \o ":" \o subject.Id
    ELSE subject.Type \o ":" \o subject.Id \o "#" \o subject.Relation

\* A key format that leaves the schema version out.
CheckKeyFormatNoVersion(tenant, version, snap, entityAndRelation, subject) ==
    "check_" \o tenant \o "_" \o ":" \o snap \o ":"
        \o entityAndRelation \o "@" \o subject

\* fmt.Sprintf("check_%s_%s:%s:%s@%s", ...)
CheckKeyFormat(tenant, version, snap, entityAndRelation, subject) ==
    "check_" \o tenant \o "_" \o version \o ":" \o snap \o ":"
        \o entityAndRelation \o "@" \o subject

\* hex.EncodeToString of the xxhash sum of the key string. The 64-bit sum is
\* taken to be free of collisions on the keys of the model.
HashHex(checkKey) == <<"xxhash64", checkKey>>

\* The checkKey string SetCheckKey builds.
SetCheckKeyString(key) ==
    CheckKeyFormat(key.TenantId, key.SchemaVersion, key.SnapToken,
                   EntityAndRelationToString(key.Entity, key.Permission),
                   SubjectToString(key.Subject))

\* A key string that also carries the depth budget and the exclusion flag.
CheckKeyStringWithMetadata(key) ==
    SetCheckKeyString(key) \o (IF key.Depth = 20 THEN ":d" ELSE ":e")
        \o (IF key.Exclusion THEN "!" ELSE "")

\* The checkKey string GetCheckKey builds.
GetCheckKeyString(key) ==
    CheckKeyFormat(key.TenantId, key.SchemaVersion, key.SnapToken,
                   EntityAndRelationToString(key.Entity, key.Permission),
                   SubjectToString(key.Subject))

\* What the cache is said to be keyed by.
KeyFields(req) ==
    [TenantId |-> req.TenantId, SchemaVersion |-> req.SchemaVersion,
     SnapToken |-> req.SnapToken, Entity |-> req.Entity,
     Permission |-> req.Permission, Subject |-> req.Subject]

\* The decision of a Check: a function of the tenant, schema version,
\* snapshot, entity, permission and subject. In the stores of the model the
\* permission is granted in tenant "a" and in no other.
Decision(req) == IF req.TenantId = "a" THEN "ALLOWED" ELSE "DENIED"

\* cache.Set(k, value, cost) that keeps the value: the entry under k is
\* replaced, evicting `victims` (none, or one entry) to stay within the
\* capacity.
CacheSet(k, value, by, victims) ==
    {e \in cache : e.key # k /\ e \notin victims}
        \cup {[key |-> k, resp |-> value, by |-> by]}

\* CommandKeys.SetCheckKey(key, value) where value is the decision the Check
\* of `key` computed. The cache keeps the entry (and returns true) or drops
\* it (and returns false).
SetCheckKey ==
    /\ impl = "cache"
    /\ kout.op = "none"
    /\ \E key \in CheckRequests :
          LET k == HashHex(SetCheckKeyString(key))
          IN \/ \E victims \in {{}} \cup {{e} : e \in cache} :
                  /\ Cardinality(CacheSet(k, Decision(key), KeyFields(key), victims))
                         <= CacheCap
                  /\ cache' = CacheSet(k, Decision(key), KeyFields(key), victims)
             \/ cache' = cache
    /\ UNCHANGED <<impl, kout>>
    /\ UNCHANGED <<lvars, rows, clock, qout, pager, xvars, nvars>>

\* CommandKeys.GetCheckKey(key)
GetCheckKey ==
    /\ impl = "cache"
    /\ kout.op = "none"
    /\ \E key \in CheckRequests :
          LET k    == HashHex(GetCheckKeyString(key))
              hits == {e \in cache : e.key = k}
          IN kout' = IF hits # {}
                     THEN LET e == CHOOSE h \in hits : TRUE
                          IN [op |-> "GetCheckKey", req |-> key, key |-> k,
                              resp |-> e.resp, found |-> TRUE, by |-> e.by]
                     ELSE [op |-> "GetCheckKey", req |-> key, key |-> k,
                           resp |-> "nil", found |-> FALSE, by |-> <<>>]
    /\ UNCHANGED <<impl, cache>>
    /\ UNCHANGED <<lvars, rows, clock, qout, pager, xvars, nvars>>

\* The eviction policy of the cache removes an entry.
Evict ==
    /\ kout.op = "none"
    /\ \E e \in cache : cache' = cache \ {e}
    /\ UNCHANGED <<impl, kout>>
    /\ UNCHANGED <<lvars, rows, clock, qout, pager, xvars, nvars>>

\* NoopCommandKeys.SetCheckKey: returns true and keeps nothing.
NoopSetCheckKey ==
    /\ impl = "noop"
    /\ kout.op = "none"
    /\ UNCHANGED vars

\* NoopCommandKeys.GetCheckKey: returns (nil, false).
NoopGetCheckKey ==
    /\ impl = "noop"
    /\ kout.op = "none"
    /\ \E key \in CheckRequests :
          kout' = [op |-> "GetCheckKey", req |-> key,
                   key |-> HashHex(GetCheckKeyString(key)),
                   resp |-> "nil", found |-> FALSE, by |-> <<>>]
    /\ UNCHANGED <<impl, cache>>
    /\ UNCHANGED <<lvars, rows, clock, qout, pager, xvars, nvars>>

NextKeys ==
    \/ SetCheckKey
    \/ GetCheckKey
    \/ Evict
    \/ NoopSetCheckKey
    \/ NoopGetCheckKey

\* A key manager, with or without a cache behind it; no request runs and
\* the store stays empty.
InitKeys ==
    /\ InitRequest
    /\ mode = "execute"
    /\ request.SnapToken = EmptyString
    /\ request.SchemaVersion = EmptyString
    /\ InitStore
    /\ impl \in {"cache", "noop"}
    /\ cache = {}
    /\ kout = NoGet
    /\ InitExpand

SpecKeys == InitKeys /\ [][NextKeys]_vars

(***************************************************************************)
(* The expand command, on the drive sample of its test                     *)
(* (expand-command, "Drive Sample: Case 1")                                *)
(***************************************************************************)
ELLIPSIS == "..."

USER == "user"

ComputedUserSet(relation) == [kind |-> "computed", relation |-> relation]

TupleToUserSet(tupleSet, computed) ==
    [kind |-> "ttus", tupleSet |-> tupleSet, computed |-> computed]

Rewrite(op, children) == [kind |-> "rewrite", op |-> op, children |-> children]

\* driveSchema: the relations of each entity, and the compiled child of each
\* action.
DriveRelations ==
    [organization |-> {"admin"},
     folder       |-> {"org", "creator", "collaborator"},
     doc          |-> {"org", "parent", "owner"}]

DriveActions ==
    [organization |-> <<>>,
     folder |->
        [read   |-> ComputedUserSet("collaborator"),
         update |-> ComputedUserSet("collaborator"),
         delete |-> Rewrite("UNION", <<ComputedUserSet("creator"),
                                       TupleToUserSet("org", "admin")>>)],
     doc |->
        [read   |-> Rewrite("UNION",
                        <<Rewrite("UNION", <<ComputedUserSet("owner"),
                                             TupleToUserSet("parent", "collaborator")>>),
                          TupleToUserSet("org", "admin")>>),
         update |-> Rewrite("INTERSECTION", <<ComputedUserSet("owner"),
                                              TupleToUserSet("org", "admin")>>),
         delete |-> Rewrite("UNION", <<ComputedUserSet("owner"),
                                       TupleToUserSet("org", "admin")>>)]]

Entity(type, id) == [Type |-> type, Id |-> id]

Subject(type, id, relation) == [Type |-> type, Id |-> id, Relation |-> relation]

Tuple(entity, relation, subject) ==
    [Entity |-> entity, Relation |-> relation, Subject |-> subject]

\* The tuples the test's relationship reader returns, in the order the test
\* lists them.
DriveTuples ==
    <<Tuple(Entity("doc", "1"), "owner", Subject(USER, "2", "")),
      Tuple(Entity("doc", "1"), "parent", Subject("folder", "1", ELLIPSIS)),
      Tuple(Entity("folder", "1"), "collaborator", Subject(USER, "1", "")),
      Tuple(Entity("folder", "1"), "collaborator", Subject(USER, "3", "")),
      Tuple(Entity("doc", "1"), "org", Subject("organization", "1", ELLIPSIS)),
      Tuple(Entity("organization", "1"), "admin", Subject(USER, "1", ""))>>

\* Further tuples of the same schema: a second parent folder of doc:1 and
\* its collaborator.
MoreTuples ==
    {Tuple(Entity("doc", "1"), "parent", Subject("folder", "2", ELLIPSIS)),
     Tuple(Entity("folder", "2"), "collaborator", Subject(USER, "4", ""))}

ExpandNode(op, children) == [node |-> "expand", op |-> op, children |-> children]

ExpandLeaf(entity, relation, subjects) ==
    [node |-> "leaf", target |-> [Entity |-> entity, Relation |-> relation],
     subjects |-> subjects]

\* QueryRelationships(tenant, {entity type, ids [id], relation}, snap): the
\* tuples of one entity and relation, in storage order.
QueryTuples(store, entity, relation) ==
    SelectSeq(store, LAMBDA t : t.Entity = entity /\ t.Relation = relation)

\* A subject as a leaf lists it.
LeafSubject(subject) ==
    Subject(subject.Type, subject.Id,
            IF subject.Relation = ELLIPSIS THEN "" ELSE subject.Relation)

\* Expanding a relation: a leaf with the subjects of its tuples.
ExpandDirect(store, entity, relation) ==
    LET ts == QueryTuples(store, entity, relation)
    IN ExpandLeaf(entity, relation, [i \in 1..Len(ts) |-> LeafSubject(ts[i].Subject)])

RECURSIVE Expand(_, _, _)
RECURSIVE ExpandChild(_, _, _)

\* A walk that returns the expansion of its only tuple unwrapped.
ExpandTupleToUserSetUnwrapped(store, entity, leaf) ==
    LET ts == QueryTuples(store, entity, leaf.tupleSet)
        children == [i \in 1..Len(ts) |->
                        Expand(store, Entity(ts[i].Subject.Type, ts[i].Subject.Id),
                               leaf.computed)]
    IN IF Len(ts) = 1 THEN children[1] ELSE ExpandNode("UNION", children)

\* Expanding TupleToUserSet{T, C}: a UNION node with, for each T-tuple of the
\* entity in storage order, the expansion of C on the entity the tuple
\* links to.
ExpandTupleToUserSet(store, entity, leaf) ==
    LET ts == QueryTuples(store, entity, leaf.tupleSet)
    IN ExpandNode("UNION",
           [i \in 1..Len(ts) |->
               Expand(store, Entity(ts[i].Subject.Type, ts[i].Subject.Id),
                      leaf.computed)])

\* Expanding a child of an action: a Rewrite becomes a node of the same
\* operation over its children in order; ComputedUserSet{R} becomes the
\* expansion of R on the same entity.
ExpandChild(store, entity, child) ==
    CASE child.kind = "rewrite" ->
           ExpandNode(child.op,
               [i \in 1..Len(child.children) |->
                   ExpandChild(store, entity, child.children[i])])
      [] child.kind = "computed" -> Expand(store, entity, child.relation)
      [] child.kind = "ttus" -> ExpandTupleToUserSet(store, entity, child)

\* ExpandCommand.Execute: dispatch on whether the permission is a relation
\* or an action of the entity's definition.
Expand(store, entity, permission) ==
    IF permission \in DriveRelations[entity.Type]
    THEN ExpandDirect(store, entity, permission)
    ELSE ExpandChild(store, entity, DriveActions[entity.Type][permission])

\* The requests of the model: an entity of the sample and a relation or an
\* action of its definition.
ExpandEntities ==
    {Entity("doc", "1"), Entity("folder", "1"), Entity("organization", "1")}

PermissionsOf(type) ==
    DriveRelations[type]
        \cup (IF type = "organization" THEN {} ELSE {"read", "update", "delete"})

\* A tuple is written to the store, behind those already there.
WriteTuple ==
    /\ xout.op = "none"
    /\ xstore # DriveTuples
    /\ Len(xstore) < MaxWrites
    /\ \E t \in {DriveTuples[i] : i \in 1..Len(DriveTuples)} \cup MoreTuples :
          /\ \A i \in 1..Len(xstore) : xstore[i] # t
          /\ xstore' = Append(xstore, t)
    /\ UNCHANGED xout
    /\ UNCHANGED <<lvars, rows, clock, qout, pager, kvars, nvars>>

\* ExpandCommand.Execute
ExpandExecute ==
    /\ xout.op = "none"
    /\ \E entity \in ExpandEntities :
          \E permission \in PermissionsOf(entity.Type) :
             xout' = [op |-> "Expand", entity |-> entity, permission |-> permission,
                      tree |-> Expand(xstore, entity, permission)]
    /\ UNCHANGED xstore
    /\ UNCHANGED <<lvars, rows, clock, qout, pager, kvars, nvars>>

NextExpand == WriteTuple \/ ExpandExecute

\* The expand command over the store of the test, or over a store that
\* starts empty and receives up to MaxWrites tuples in any order.
InitExpandSample ==
    /\ InitRequest
    /\ mode = "execute"
    /\ request.SnapToken = EmptyString
    /\ request.SchemaVersion = EmptyString
    /\ InitStore
    /\ InitCache
    /\ xstore \in {<<>>, DriveTuples}
    /\ xout = NoExpand

SpecExpand == InitExpandSample /\ [][NextExpand]_vars

(***************************************************************************)
(* The check command (ICheckCommand.Execute), on the drive sample and on a *)
(* sample with cycles and exclusions.  The command runs with the no-op key *)
(* manager, as the development container builds it: no decision is cached. *)
(***************************************************************************)
\* The largest depth budget a Check request carries.
MaxDepth == 3

Leaf(exclusion, body) == [kind |-> "leaf", exclusion |-> exclusion, body |-> body]

\* A child of an action as a leaf: a bare ComputedUserSet or TupleToUserSet
\* is a leaf without exclusion.
AsLeaf(child) == IF child.kind = "leaf" THEN child ELSE Leaf(FALSE, child)

\* A schema whose walks can cycle and whose actions exclude:
\*   entity group { relation member @user @group#member }
\*   entity doc {
\*     relation parent @doc    relation viewer @user @group#member
\*     relation banned @user
\*     action view   = viewer or parent.view
\*     action ping   = pong          action pong = ping
\*     action open   = not banned    action hidden = not view
\*     action safe   = view and not banned }
LoopRelations ==
    [group |-> {"member"},
     doc   |-> {"parent", "viewer", "banned"}]

LoopActions ==
    [group |-> <<>>,
     doc |->
        [view   |-> Rewrite("UNION", <<Leaf(FALSE, ComputedUserSet("viewer")),
                                       Leaf(FALSE, TupleToUserSet("parent", "view"))>>),
         ping   |-> Leaf(FALSE, ComputedUserSet("pong")),
         pong   |-> Leaf(FALSE, ComputedUserSet("ping")),
         open   |-> Leaf(TRUE, ComputedUserSet("banned")),
         hidden |-> Leaf(TRUE, ComputedUserSet("view")),
         safe   |-> Rewrite("INTERSECTION",
                        <<Leaf(FALSE, ComputedUserSet("view")),
                          Leaf(TRUE, ComputedUserSet("banned"))>>)]]

Schemas ==
    [drive |-> [relations |-> DriveRelations, actions |-> DriveActions],
     loop  |-> [relations |-> LoopRelations, actions |-> LoopActions]]

\* Tuples written behind the store's first ones, in this order.  On the
\* drive sample: a second parent folder with its collaborator, and a second
\* document. On the loop sample: two documents that are each other's
\* parent, and a group that is its own member.
TuplePool ==
    [drive |->
        <<Tuple(Entity("doc", "1"), "parent", Subject("folder", "2", ELLIPSIS)),
          Tuple(Entity("folder", "2"), "collaborator", Subject(USER, "4", "")),
          Tuple(Entity("doc", "2"), "owner", Subject(USER, "1", ""))>>,
     loop |->
        <<Tuple(Entity("doc", "1"), "parent", Subject("doc", "2", ELLIPSIS)),
          Tuple(Entity("doc", "2"), "parent", Subject("doc", "1", ELLIPSIS)),
          Tuple(Entity("doc", "2"), "viewer", Subject(USER, "1", "")),
          Tuple(Entity("doc", "1"), "viewer", Subject("group", "1", "member")),
          Tuple(Entity("group", "1"), "member", Subject("group", "1", "member")),
          Tuple(Entity("doc", "1"), "banned", Subject(USER, "1", ""))>>]

FirstTuples == [drive |-> DriveTuples, loop |-> <<>>]

CheckEntities ==
    [drive |-> {Entity("doc", "1"), Entity("folder", "1"), Entity("organization", "1")},
     loop  |-> {Entity("doc", "1"), Entity("doc", "2"), Entity("group", "1")}]

CheckSubjects ==
    [drive |-> {Subject(USER, id, "") : id \in {"1", "2", "3", "4"}},
     loop  |-> {Subject(USER, id, "") : id \in {"1", "2"}}]

\* The reads that can fail: QueryRelationships of one entity and relation.
FaultQueries ==
    [drive |-> {<<Entity("organization", "1"), "admin">>,
                <<Entity("doc", "1"), "owner">>},
     loop  |-> {<<Entity("doc", "1"), "banned">>,
                <<Entity("doc", "2"), "viewer">>}]

\* The orders in which the sub-checks of one fan-out complete.
CompletionOrders == {"first to last", "last to first"}

Reverse(s) == [i \in 1..Len(s) |-> s[Len(s) + 1 - i]]

InCompletionOrder(s, order) == IF order = "first to last" THEN s ELSE Reverse(s)

ActionsOf(schema, type) == DOMAIN Schemas[schema].actions[type]

Allowed == [can |-> "ALLOWED", err |-> "nil", exceeded |-> FALSE, calls |-> {}]

Denied == [can |-> "DENIED", err |-> "nil", exceeded |-> FALSE, calls |-> {}]

\* A storage error: the reader's error, with the response of a failed call.
StorageError == [can |-> "DENIED", err |-> "EXECUTION", exceeded |-> FALSE, calls |-> {}]

\* A budget that is used up and leaves no tag.
DepthExceededUntagged == [can |-> "DENIED", err |-> "nil", exceeded |-> FALSE, calls |-> {}]

\* The budget is used up: DENIED, tagged DEPTH_EXCEEDED.
DepthExceeded == [can |-> "DENIED", err |-> "nil", exceeded |-> TRUE, calls |-> {}]

\* The result of a sub-check on which a rewrite stops waiting: an error, or
\* the decision that settles the operation.
Decisive(op, r) ==
    \/ r.err # "nil"
    \/ r.can = (IF op = "UNION" THEN "ALLOWED" ELSE "DENIED")

\* An intersection that is settled like a union.
CheckCombineAnyAllows(op, rs) ==
    LET decisive == {i \in 1..Len(rs) : Decisive("UNION", rs[i])}
        k == IF decisive = {} THEN 0
             ELSE CHOOSE i \in decisive : \A j \in decisive : i <= j
        waited == IF k = 0 THEN 1..Len(rs) ELSE 1..k
        settled == IF k = 0 THEN Denied ELSE rs[k]
    IN [can |-> settled.can, err |-> settled.err,
        exceeded |-> \E i \in waited : rs[i].exceeded,
        calls |-> UNION {rs[i].calls : i \in 1..Len(rs)}]

\* checkUnion / checkIntersection over the results of the sub-checks in
\* their order of completion: all sub-checks are started; the first
\* decisive result is returned and the others are cancelled; when none is
\* decisive the operation's neutral decision is returned.
CheckCombine(op, rs) ==
    LET decisive == {i \in 1..Len(rs) : Decisive(op, rs[i])}
        k == IF decisive = {} THEN 0
             ELSE CHOOSE i \in decisive : \A j \in decisive : i <= j
        waited == IF k = 0 THEN 1..Len(rs) ELSE 1..k
        settled == IF k # 0 THEN rs[k]
                   ELSE IF op = "UNION" THEN Denied ELSE Allowed
    IN [can |-> settled.can, err |-> settled.err,
        exceeded |-> \E i \in waited : rs[i].exceeded,
        calls |-> UNION {rs[i].calls : i \in 1..Len(rs)}]

\* An exclusion that denies what the inner check allows and allows nothing.
FlipDeniesOnly(r) ==
    IF r.err # "nil" THEN r ELSE [r EXCEPT !.can = "DENIED"]

\* The exclusion flag of a leaf: the inner decision is flipped.
Flip(r) ==
    IF r.err # "nil" THEN r
    ELSE [r EXCEPT !.can = IF @ = "ALLOWED" THEN "DENIED" ELSE "ALLOWED"]

\* The remaining depth a recursive Check is given.
NextDepth(depth) == depth - 1

IsUserSet(subject) == subject.Relation \notin {"", ELLIPSIS}

\* Type and id match, and the relations match or both are the terminal
\* sentinel.
SubjectEquals(a, b) ==
    /\ a.Type = b.Type
    /\ a.Id = b.Id
    /\ \/ a.Relation = b.Relation
       \/ ~IsUserSet(a) /\ ~IsUserSet(b)

\* The children of every rewrite in the opposite order.
RECURSIVE Permuted(_)
Permuted(child) ==
    IF child.kind = "rewrite"
    THEN Rewrite(child.op, Reverse([i \in 1..Len(child.children) |->
                                       Permuted(child.children[i])]))
    ELSE child

RECURSIVE Check(_, _, _, _)
RECURSIVE CheckChild(_, _, _, _)

\* A recursive Check, with the call recorded in the trace.
SubCheck(ctx, entity, permission, depth) ==
    LET r == Check(ctx, entity, permission, NextDepth(depth))
    IN [r EXCEPT !.calls = @ \cup {[Entity |-> entity, Permission |-> permission,
                                    Depth |-> NextDepth(depth), From |-> depth]}]

\* checkDirect: the tuples (entity, relation, *); a tuple whose subject is
\* the query's subject allows; a userset subject E#R is checked recursively.
CheckDirect(ctx, entity, relation, depth) ==
    IF <<entity, relation>> \in ctx.fault THEN StorageError
    ELSE LET ts == QueryTuples(ctx.store, entity, relation)
             rs == [i \in 1..Len(ts) |->
                      IF SubjectEquals(ts[i].Subject, ctx.subject) THEN Allowed
                      ELSE IF IsUserSet(ts[i].Subject)
                           THEN SubCheck(ctx, Entity(ts[i].Subject.Type, ts[i].Subject.Id),
                                         ts[i].Subject.Relation, depth)
                           ELSE Denied]
         IN CheckCombine("UNION", InCompletionOrder(rs, ctx.order))

\* TupleToUserSet{T, C}: the tuples (entity, T, *); C is checked on the
\* entity each tuple links to.
CheckTupleToUserSet(ctx, entity, body, depth) ==
    IF <<entity, body.tupleSet>> \in ctx.fault THEN StorageError
    ELSE LET ts == QueryTuples(ctx.store, entity, body.tupleSet)
             rs == [i \in 1..Len(ts) |->
                      SubCheck(ctx, Entity(ts[i].Subject.Type, ts[i].Subject.Id),
                               body.computed, depth)]
         IN CheckCombine("UNION", InCompletionOrder(rs, ctx.order))

\* A leaf: ComputedUserSet{R} is R checked on the same entity.
CheckLeaf(ctx, entity, leaf, depth) ==
    LET inner == IF leaf.body.kind = "computed"
                 THEN SubCheck(ctx, entity, leaf.body.relation, depth)
                 ELSE CheckTupleToUserSet(ctx, entity, leaf.body, depth)
    IN IF leaf.exclusion THEN Flip(inner) ELSE inner

\* checkRewrite: the children are checked concurrently and combined.
CheckChild(ctx, entity, child, depth) ==
    IF child.kind = "rewrite"
    THEN CheckCombine(child.op,
             InCompletionOrder([i \in 1..Len(child.children) |->
                                   CheckChild(ctx, entity, child.children[i], depth)],
                               ctx.order))
    ELSE CheckLeaf(ctx, entity, AsLeaf(child), depth)

\* Check: at depth zero DENIED; otherwise dispatch on whether the
\* permission is a relation or an action of the entity's definition.
Check(ctx, entity, permission, depth) ==
    IF depth = 0 THEN DepthExceeded
    ELSE IF permission \in Schemas[ctx.schema].relations[entity.Type]
         THEN CheckDirect(ctx, entity, permission, depth)
         ELSE LET child == Schemas[ctx.schema].actions[entity.Type][permission]
              IN CheckChild(ctx, entity,
                            IF ctx.permuted THEN Permuted(child) ELSE child, depth)

\* A tuple is written to the store, behind those already there.
WriteCheckTuple ==
    /\ cout.op = "none"
    /\ \E i \in 1..Len(TuplePool[cschema]) :
          /\ \A j \in i..Len(TuplePool[cschema]) :
                \A n \in 1..Len(cstore) : cstore[n] # TuplePool[cschema][j]
          /\ cstore' = Append(cstore, TuplePool[cschema][i])
    /\ UNCHANGED <<cschema, cout>>
    /\ UNCHANGED <<lvars, rows, clock, qout, pager, kvars, xvars, dvars, svars>>

CheckContext(subject, fault, order, permuted) ==
    [schema |-> cschema, store |-> cstore, subject |-> subject,
     fault |-> fault, order |-> order, permuted |-> permuted]

\* CheckCommand.Execute
CheckExecute ==
    /\ cout.op = "none"
    /\ \E entity \in CheckEntities[cschema] :
       \E permission \in Schemas[cschema].relations[entity.Type]
                            \cup ActionsOf(cschema, entity.Type) :
       \E subject \in CheckSubjects[cschema] :
       \E depth \in 0..MaxDepth :
       \E fault \in {{}} \cup {{q} : q \in FaultQueries[cschema]} :
       \E order \in CompletionOrders :
          cout' = [op |-> "Check", entity |-> entity, permission |-> permission,
                   subject |-> subject, depth |-> depth, fault |-> fault,
                   order |-> order,
                   result |-> Check(CheckContext(subject, fault, order, FALSE),
                                    entity, permission, depth),
                   again |-> NoCheck.again, operand |-> NoCheck.operand]
    /\ UNCHANGED <<cschema, cstore>>
    /\ UNCHANGED <<lvars, rows, clock, qout, pager, kvars, xvars, dvars, svars>>

\* The same request is issued once more; its sub-checks complete in
\* another order, or the children of the schema's rewrites are permuted.
CheckAgain ==
    /\ cout.op = "Check"
    /\ cout.again.can = "none"
    /\ cout.operand.can = "none"
    /\ \E order \in CompletionOrders, permuted \in BOOLEAN :
          /\ order # cout.order \/ permuted
          /\ cout' = [cout EXCEPT !.again =
                         Check(CheckContext(cout.subject, cout.fault, order, permuted),
                               cout.entity, cout.permission, cout.depth)]
    /\ UNCHANGED <<cschema, cstore>>
    /\ UNCHANGED <<lvars, rows, clock, qout, pager, kvars, xvars, dvars, svars>>

\* The action of the last request, when it is defined as `not A`.
IsNegation(entity, permission) ==
    /\ permission \in ActionsOf(cschema, entity.Type)
    /\ LET child == AsLeaf(Schemas[cschema].actions[entity.Type][permission])
       IN child.kind = "leaf" /\ child.exclusion /\ child.body.kind = "computed"

Operand(entity, permission) ==
    AsLeaf(Schemas[cschema].actions[entity.Type][permission]).body.relation

\* After a Check of an action defined as `not A`: A is checked on the same
\* entity for the same subject, with the same budget, reads and order.
CheckOperand ==
    /\ cout.op = "Check"
    /\ cout.again.can = "none"
    /\ cout.operand.can = "none"
    /\ IsNegation(cout.entity, cout.permission)
    /\ cout' = [cout EXCEPT !.operand =
                   Check(CheckContext(cout.subject, cout.fault, cout.order, FALSE),
                         cout.entity, Operand(cout.entity, cout.permission),
                         cout.depth)]
    /\ UNCHANGED <<cschema, cstore>>
    /\ UNCHANGED <<lvars, rows, clock, qout, pager, kvars, xvars, dvars, svars>>

NextCheck == WriteCheckTuple \/ CheckExecute \/ CheckAgain \/ CheckOperand

\* The check command over the drive sample's tuples or over the loop
\* sample's empty store; further tuples are written before the request.
InitCheckSample ==
    /\ InitRequest
    /\ mode = "execute"
    /\ request.SnapToken = EmptyString
    /\ request.SchemaVersion = EmptyString
    /\ InitTable
    /\ InitCache
    /\ InitExpand
    /\ InitCompiler
    /\ cschema \in DOMAIN Schemas
    /\ cstore = FirstTuples[cschema]
    /\ cout = NoCheck

SpecCheck == InitCheckSample /\ [][NextCheck]_vars

(***************************************************************************)
(* The schema compiler (compiler-suite, "NewCompiler" Cases 1-11).  A      *)
(* schema is handed over as the parser reads it: entity statements with    *)
(* relation statements (name and references) and action statements (name   *)
(* and the tokens of the expression).                                      *)
(***************************************************************************)
Operators == {"or", "and"}

RelationReference(type, relation) == [Type |-> type, Relation |-> relation]

RelationStatement(name, references) == [Name |-> name, References |-> references]

ActionStatement(name, tokens) == [Name |-> name, Tokens |-> tokens]

EntityStatement(name, relations, actions) ==
    [Name |-> name, Relations |-> relations, Actions |-> actions]

\* The nodes of a parsed expression: an identifier a, a.b, a.b.c with its
\* `not`, and an infix chain of terms under one operator.
Identifier(not, idents) == [kind |-> "ident", not |-> not, idents |-> idents]

Infix(op, terms) == [kind |-> "infix", op |-> op, terms |-> terms]

RECURSIVE ParseIdents(_, _, _)
RECURSIVE ParseTerm(_, _)
RECURSIVE ParseRest(_, _, _)
RECURSIVE ParseExpr(_, _)

\* atom := IDENT ("." IDENT)*, read from the token behind the first IDENT
ParseIdents(toks, pos, idents) ==
    IF pos + 1 <= Len(toks) /\ toks[pos] = "."
    THEN ParseIdents(toks, pos + 2, Append(idents, toks[pos + 1]))
    ELSE [idents |-> idents, pos |-> pos]

ParseAtom(toks, pos, not) ==
    LET r == ParseIdents(toks, pos + 1, <<toks[pos]>>)
    IN [node |-> Identifier(not, r.idents), pos |-> r.pos]

\* term := "not"? atom | "(" expr ")"
ParseTerm(toks, pos) ==
    CASE toks[pos] = "(" ->
           LET e == ParseExpr(toks, pos + 1)
           IN [node |-> e.node, pos |-> e.pos + 1]
      [] toks[pos] = "not" -> ParseAtom(toks, pos + 1, TRUE)
      [] OTHER -> ParseAtom(toks, pos, FALSE)

\* A chain read as nested binary expressions, ((a or b) or c).
ParseRestLeftNested(toks, pos, terms) ==
    IF pos <= Len(toks) /\ toks[pos] \in Operators
    THEN LET t == ParseTerm(toks, pos + 1)
             left == IF Len(terms) > 1 THEN <<Infix(toks[pos], terms)>> ELSE terms
         IN ParseRest(toks, t.pos, Append(left, t.node))
    ELSE [terms |-> terms, pos |-> pos]

\* (("or" | "and") term)*: the terms of a chain, in source order
ParseRest(toks, pos, terms) ==
    IF pos <= Len(toks) /\ toks[pos] \in Operators
    THEN LET t == ParseTerm(toks, pos + 1)
         IN ParseRest(toks, t.pos, Append(terms, t.node))
    ELSE [terms |-> terms, pos |-> pos]

\* expr := term (("or" | "and") term)*
ParseExpr(toks, pos) ==
    LET t == ParseTerm(toks, pos)
    IN IF t.pos <= Len(toks) /\ toks[t.pos] \in Operators
       THEN LET r == ParseRest(toks, t.pos, <<t.node>>)
            IN [node |-> Infix(toks[t.pos], r.terms), pos |-> r.pos]
       ELSE t

Parse(toks) == ParseExpr(toks, 1).node

\* References of an entity statement: its relation names and action names.
RelationNames(st) == {st.Relations[i].Name : i \in 1..Len(st.Relations)}

ActionNames(st) == {st.Actions[i].Name : i \in 1..Len(st.Actions)}

EntityNamed(schema, name) ==
    schema[CHOOSE i \in 1..Len(schema) : schema[i].Name = name]

Compiled(child) == [err |-> "nil", child |-> child]

CompileFailed(err) == [err |-> err, child |-> <<>>]

\* The first error of a sequence of results, or "nil".
FirstError(rs) ==
    LET failed == {i \in 1..Len(rs) : rs[i].err # "nil"}
    IN IF failed = {} THEN "nil"
       ELSE rs[CHOOSE i \in failed : \A j \in failed : i <= j].err

\* A compiler that does not validate the references of an action.
ValidateReferenceSkipped(st, name) == TRUE

\* A bare identifier names a relation or an action of the entity.
ValidateReference(st, name) == name \in RelationNames(st) \cup ActionNames(st)

\* A walk of more than one hop compiled as the walk to its last segment.
CompileWalkToLast(idents) ==
    Compiled(TupleToUserSet(idents[1], idents[Len(idents)]))

\* IDENT.IDENT becomes TupleToUserSet{first, second}; a longer walk is
\* rejected.
CompileWalk(idents) ==
    IF Len(idents) > 2 THEN CompileFailed("NOT_SUPPORTED_RELATION_WALK")
    ELSE Compiled(TupleToUserSet(idents[1], idents[2]))

\* A leaf compiled without its `not`.
CompileLeafPositive(st, node) ==
    LET body == IF Len(node.idents) = 1
                THEN IF ValidateReference(st, node.idents[1])
                     THEN Compiled(ComputedUserSet(node.idents[1]))
                     ELSE CompileFailed("UNDEFINED_RELATION_REFERENCE")
                ELSE CompileWalk(node.idents)
    IN IF body.err # "nil" THEN body
       ELSE Compiled(Leaf(FALSE, body.child))

\* compileLeaf: an identifier becomes a leaf that carries its `not`.
CompileLeaf(st, node) ==
    LET body == IF Len(node.idents) = 1
                THEN IF ValidateReference(st, node.idents[1])
                     THEN Compiled(ComputedUserSet(node.idents[1]))
                     ELSE CompileFailed("UNDEFINED_RELATION_REFERENCE")
                ELSE CompileWalk(node.idents)
    IN IF body.err # "nil" THEN body
       ELSE Compiled(Leaf(node.not, body.child))

RewriteOperation(op) == IF op = "or" THEN "UNION" ELSE "INTERSECTION"

\* The children of a rewrite, with those of a child rewrite of the same
\* operation taken into the parent.
RECURSIVE Merged(_, _)
Merged(op, children) ==
    IF children = <<>> THEN <<>>
    ELSE LET c == Head(children)
         IN (IF c.kind = "rewrite" /\ c.op = op THEN c.children ELSE <<c>>)
                \o Merged(op, Tail(children))

RECURSIVE CompileChildren(_, _)

\* A rewrite that takes a parenthesised chain of its own operation apart.
CompileRewriteMerged(st, node) ==
    LET rs == [i \in 1..Len(node.terms) |-> CompileChildren(st, node.terms[i])]
    IN IF FirstError(rs) # "nil" THEN CompileFailed(FirstError(rs))
       ELSE Compiled(Rewrite(RewriteOperation(node.op),
                Merged(RewriteOperation(node.op),
                       [i \in 1..Len(rs) |-> rs[i].child])))

\* compileRewrite: a chain becomes one Rewrite over its terms in source
\* order; the first term that fails to compile fails the chain.
CompileRewrite(st, node) ==
    LET rs == [i \in 1..Len(node.terms) |-> CompileChildren(st, node.terms[i])]
    IN IF FirstError(rs) # "nil" THEN CompileFailed(FirstError(rs))
       ELSE Compiled(Rewrite(RewriteOperation(node.op),
                             [i \in 1..Len(rs) |-> rs[i].child]))

CompileChildren(st, node) ==
    IF node.kind = "infix" THEN CompileRewrite(st, node)
    ELSE CompileLeaf(st, node)

\* A reference E#R that is accepted when R is any name of E.
ValidateRelationReferenceAnyName(schema, ref) ==
    LET target == EntityNamed(schema, ref.Type)
    IN ref.Relation \in RelationNames(target) \cup ActionNames(target)

\* A reference E#R names a relation of E.
ValidateRelationReference(schema, ref) ==
    ref.Relation \in RelationNames(EntityNamed(schema, ref.Type))

\* References compiled without counting the bare entity references.
CompileReferenceUncounted(schema, references, i) ==
    IF references[i].Relation = "" \/ ValidateRelationReference(schema, references[i])
    THEN "nil"
    ELSE "RELATION_REFERENCE_NOT_FOUND_IN_ENTITY_REFERENCES"

\* The references of a relation statement, in order: a second reference to
\* a bare entity, or a reference E#R whose R is not a relation of E, fails.
CompileReference(schema, references, i) ==
    IF references[i].Relation = ""
    THEN IF \E j \in 1..(i - 1) : references[j].Relation = ""
         THEN "RELATION_REFERENCE_MUST_HAVE_ONE_ENTITY_REFERENCE"
         ELSE "nil"
    ELSE IF ValidateRelationReference(schema, references[i])
         THEN "nil"
         ELSE "RELATION_REFERENCE_NOT_FOUND_IN_ENTITY_REFERENCES"

CompileRelation(schema, rel) ==
    [err |-> FirstError([i \in 1..Len(rel.References) |->
                            [err |-> CompileReference(schema, rel.References, i)]]),
     child |-> [Name |-> rel.Name, RelationReferences |-> rel.References]]

CompileAction(st, act) ==
    LET r == CompileChildren(st, Parse(act.Tokens))
    IN [err |-> r.err, child |-> [Name |-> act.Name, Child |-> r.child]]

RelationalReference(st, name) ==
    IF name \in RelationNames(st) THEN "RELATION" ELSE "ACTION"

\* The definition of one entity: its relations, then its actions.
CompileEntity(schema, st) ==
    LET rels == [i \in 1..Len(st.Relations) |-> CompileRelation(schema, st.Relations[i])]
        acts == [i \in 1..Len(st.Actions) |-> CompileAction(st, st.Actions[i])]
    IN [err |-> FirstError(rels \o acts),
        child |->
          [Name |-> st.Name,
           Relations |-> [n \in RelationNames(st) |->
                (CHOOSE r \in {rels[i] : i \in 1..Len(rels)} : r.child.Name = n).child],
           Actions |-> [n \in ActionNames(st) |->
                (CHOOSE r \in {acts[i] : i \in 1..Len(acts)} : r.child.Name = n).child],
           References |-> [n \in RelationNames(st) \cup ActionNames(st) |->
                RelationalReference(st, n)]]]

\* Compile: the definitions of the entities in source order, or the error
\* of the first offence and no definitions.
Compile(schema) ==
    LET es == [i \in 1..Len(schema) |-> CompileEntity(schema, schema[i])]
    IN IF FirstError(es) # "nil"
       THEN [op |-> "Compile", definitions |-> <<>>, err |-> FirstError(es)]
       ELSE [op |-> "Compile", definitions |-> [i \in 1..Len(es) |-> es[i].child],
             err |-> "nil"]

\* The schemas of the tests: entity user {}, entity organization with the
\* relations owner and admin and the action update, entity repository with
\* the relations parent and owner and the action delete.
UserEntity == EntityStatement("user", <<>>, <<>>)

OrganizationEntity(update) ==
    EntityStatement("organization",
        <<RelationStatement("owner", <<RelationReference("user", "")>>),
          RelationStatement("admin", <<RelationReference("user", "")>>)>>,
        <<ActionStatement("update", update)>>)

RepositoryEntity(owner, delete) ==
    EntityStatement("repository",
        <<RelationStatement("parent", <<RelationReference("organization", "")>>),
          RelationStatement("owner", owner)>>,
        <<ActionStatement("delete", delete)>>)

OwnerOrAdmin == <<"owner", "or", "admin">>

DeleteExpression ==
    <<"owner", "or", "(", "parent", ".", "update", "or",
      "not", "parent", ".", "owner", ")">>

Case2Source == <<UserEntity, OrganizationEntity(OwnerOrAdmin)>>

Case3Source ==
    <<UserEntity,
      OrganizationEntity(<<"owner", "or", "(", "admin", "and", "owner", ")">>)>>

Case4Source == <<UserEntity, OrganizationEntity(<<"owner">>)>>

Case5Source == <<UserEntity, OrganizationEntity(<<"maintainer", "or", "admin">>)>>

Case6Source ==
    <<UserEntity,
      EntityStatement("parent",
          <<RelationStatement("admin", <<RelationReference("user", "")>>)>>, <<>>),
      EntityStatement("organization",
          <<RelationStatement("parent", <<RelationReference("parent", "")>>),
            RelationStatement("admin", <<RelationReference("user", "")>>)>>, <<>>),
      EntityStatement("repository",
          <<RelationStatement("parent", <<RelationReference("organization", "")>>)>>,
          <<ActionStatement("update",
                <<"parent", ".", "parent", ".", "admin", "or", "admin">>)>>)>>

Case7Source ==
    <<UserEntity, OrganizationEntity(OwnerOrAdmin),
      RepositoryEntity(<<RelationReference("user", "")>>, DeleteExpression)>>

Case8Source ==
    <<UserEntity, OrganizationEntity(OwnerOrAdmin),
      RepositoryEntity(<<RelationReference("user", ""),
                         RelationReference("organization", "admin"),
                         RelationReference("organization", "owner")>>,
                       DeleteExpression)>>

Case9Source ==
    <<UserEntity, OrganizationEntity(OwnerOrAdmin),
      RepositoryEntity(<<RelationReference("user", ""),
                         RelationReference("organization", "")>>,
                       DeleteExpression)>>

Case10Source ==
    <<UserEntity, OrganizationEntity(OwnerOrAdmin),
      RepositoryEntity(<<RelationReference("user", ""),
                         RelationReference("organization", "update")>>,
                       DeleteExpression)>>

Case11Source ==
    <<EntityStatement("user",
          <<RelationStatement("org", <<RelationReference("organization", "")>>)>>,
          <<ActionStatement("read", <<"org", ".", "admin">>),
            ActionStatement("write", <<"org", ".", "admin">>)>>),
      EntityStatement("organization",
          <<RelationStatement("admin", <<RelationReference("user", "")>>)>>, <<>>),
      EntityStatement("division",
          <<RelationStatement("manager", <<RelationReference("user", ""),
                                           RelationReference("organization", "admin")>>)>>,
          <<ActionStatement("read", <<"manager">>),
            ActionStatement("write", <<"manager">>)>>)>>

\* What the tests expect Compile to return.
UserDefinition ==
    [Name |-> "user", Relations |-> <<>>, Actions |-> <<>>, References |-> <<>>]

UserReference ==
    <<RelationReference("user", "")>>

OrganizationDefinition(child) ==
    [Name |-> "organization",
     Actions |-> [update |-> [Name |-> "update", Child |-> child]],
     Relations |->
        [owner |-> [Name |-> "owner", RelationReferences |-> UserReference],
         admin |-> [Name |-> "admin", RelationReferences |-> UserReference]],
     References |-> [owner |-> "RELATION", admin |-> "RELATION", update |-> "ACTION"]]

OwnerOrAdminChild ==
    Rewrite("UNION", <<Leaf(FALSE, ComputedUserSet("owner")),
                       Leaf(FALSE, ComputedUserSet("admin"))>>)

Case3Expected ==
    <<UserDefinition,
      OrganizationDefinition(
          Rewrite("UNION",
              <<Leaf(FALSE, ComputedUserSet("owner")),
                Rewrite("INTERSECTION",
                    <<Leaf(FALSE, ComputedUserSet("admin")),
                      Leaf(FALSE, ComputedUserSet("owner"))>>)>>))>>

Case4Expected ==
    <<UserDefinition, OrganizationDefinition(Leaf(FALSE, ComputedUserSet("owner")))>>

RepositoryDefinition(owner) ==
    [Name |-> "repository",
     Actions |->
        [delete |->
            [Name |-> "delete",
             Child |->
                Rewrite("UNION",
                    <<Leaf(FALSE, ComputedUserSet("owner")),
                      Rewrite("UNION",
                          <<Leaf(FALSE, TupleToUserSet("parent", "update")),
                            Leaf(TRUE, TupleToUserSet("parent", "owner"))>>)>>)]],
     Relations |->
        [parent |-> [Name |-> "parent",
                     RelationReferences |-> <<RelationReference("organization", "")>>],
         owner |-> [Name |-> "owner", RelationReferences |-> owner]],
     References |-> [parent |-> "RELATION", owner |-> "RELATION", delete |-> "ACTION"]]

Case7Expected ==
    <<UserDefinition, OrganizationDefinition(OwnerOrAdminChild),
      RepositoryDefinition(UserReference)>>

Case8Expected ==
    <<UserDefinition, OrganizationDefinition(OwnerOrAdminChild),
      RepositoryDefinition(<<RelationReference("user", ""),
                             RelationReference("organization", "admin"),
                             RelationReference("organization", "owner")>>)>>

Case11Expected ==
    <<[Name |-> "user",
       Relations |->
          [org |-> [Name |-> "org",
                    RelationReferences |-> <<RelationReference("organization", "")>>]],
       Actions |->
          [read |-> [Name |-> "read",
                     Child |-> Leaf(FALSE, TupleToUserSet("org", "admin"))],
           write |-> [Name |-> "write",
                      Child |-> Leaf(FALSE, TupleToUserSet("org", "admin"))]],
       References |-> [org |-> "RELATION", read |-> "ACTION", write |-> "ACTION"]],
      [Name |-> "organization",
       Relations |-> [admin |-> [Name |-> "admin", RelationReferences |-> UserReference]],
       Actions |-> <<>>,
       References |-> [admin |-> "RELATION"]],
      [Name |-> "division",
       Relations |->
          [manager |-> [Name |-> "manager",
                        RelationReferences |->
                           <<RelationReference("user", ""),
                             RelationReference("organization", "admin")>>]],
       Actions |->
          [read |-> [Name |-> "read", Child |-> Leaf(FALSE, ComputedUserSet("manager"))],
           write |-> [Name |-> "write", Child |-> Leaf(FALSE, ComputedUserSet("manager"))]],
       References |-> [manager |-> "RELATION", read |-> "ACTION", write |-> "ACTION"]]>>

\* The largest number of terms in a chain of the generated expressions.
MaxTerms == 3

\* Chains of n atoms under one operator, without parentheses.
RECURSIVE Chains(_, _, _)
Chains(atoms, op, n) ==
    IF n = 1 THEN atoms
    ELSE {c \o <<op>> \o a : c \in Chains(atoms, op, n - 1), a \in atoms}

Parenthesised(tokens) == <<"(">> \o tokens \o <<")">>

\* The expressions of the model over a set of atoms: an atom, a chain of up
\* to MaxTerms atoms, and a chain of an atom and a parenthesised chain of two.
Expressions(atoms) ==
    LET pairs == UNION {Chains(atoms, op, 2) : op \in Operators}
    IN UNION {Chains(atoms, op, n) : op \in Operators, n \in 1..MaxTerms}
         \cup {a \o <<op>> \o Parenthesised(p) : a \in atoms, op \in Operators, p \in pairs}
         \cup {Parenthesised(p) \o <<op>> \o a : a \in atoms, op \in Operators, p \in pairs}

OrganizationAtoms ==
    {<<"owner">>, <<"admin">>, <<"not", "admin">>, <<"maintainer">>}

RepositoryAtoms ==
    {<<"owner">>, <<"parent", ".", "update">>, <<"not", "parent", ".", "owner">>,
     <<"maintainer">>, <<"parent", ".", "parent", ".", "admin">>}

\* The references of repository's relation owner: those of Cases 7 to 10,
\* and a reference to a name that organization does not define.
OwnerReferences ==
    {Case7Source[3].Relations[2].References,
     Case8Source[3].Relations[2].References,
     Case9Source[3].Relations[2].References,
     Case10Source[3].Relations[2].References,
     <<RelationReference("user", ""), RelationReference("organization", "member")>>}

Sources ==
    {Case2Source, Case3Source, Case4Source, Case5Source, Case6Source,
     Case7Source, Case8Source, Case9Source, Case10Source, Case11Source}
      \cup {<<UserEntity, OrganizationEntity(x)>> : x \in Expressions(OrganizationAtoms)}
      \cup {<<UserEntity, OrganizationEntity(o), RepositoryEntity(r, x)>> :
               o \in {Case2Source[2].Actions[1].Tokens, Case5Source[2].Actions[1].Tokens},
               r \in OwnerReferences, x \in Expressions(RepositoryAtoms)}

\* parser.NewParser(text).Parse(): a schema is read.
ParseSchema ==
    /\ schemaSrc = NoSchema
    /\ schemaSrc' \in Sources
    /\ UNCHANGED compiled
    /\ UNCHANGED <<lvars, rows, clock, qout, pager, kvars, xvars, cvars, svars>>

\* NewCompiler(false, sch).Compile()
CompileSchema ==
    /\ schemaSrc # NoSchema
    /\ compiled.op = "none"
    /\ compiled' = Compile(schemaSrc)
    /\ UNCHANGED schemaSrc
    /\ UNCHANGED <<lvars, rows, clock, qout, pager, kvars, xvars, cvars, svars>>

NextCompiler == ParseSchema \/ CompileSchema

SpecCompiler == InitReader /\ [][NextCompiler]_vars

(***************************************************************************)
(* The schema writer of the in-memory back end                             *)
(* (internal/repositories/memory/schemaWriter.go).  WriteSchema runs in    *)
(* one write transaction of the database; readers run in transactions of   *)
(* their own and see the committed table.                                  *)
(***************************************************************************)
\* The largest number of WriteSchema calls, and of definitions in one call.
MaxCalls == 2
MaxDefs == 2

\* A definition of a call: the entity it defines and whether the table's
\* indexes can be built from it (Insert fails on a row they cannot be
\* built from).
SchemaDefinitions(call) ==
    [call : {call}, EntityType : {"user", "doc"}, indexable : BOOLEAN]

DefinitionLists(call) ==
    UNION {[1..n -> SchemaDefinitions(call)] : n \in 0..MaxDefs}

\* txn.Insert: the row is added to the transaction's copy of the table.
TxnInsert(txn, definition) == txn \cup {definition}

\* A transaction whose Abort publishes what was inserted so far.
TxnAbortPublishes(committed, txn) == txn

\* txn.Abort: the transaction's copy is dropped, the table stays as it was.
TxnAbort(committed, txn) == committed

\* txn.Commit: the transaction's copy becomes the table.
TxnCommit(committed, txn) == txn

\* txn := w.database.DB.Txn(true); defer txn.Abort()
WriteSchemaBegin ==
    /\ wtxn.state = "idle"
    /\ Len(written) < MaxCalls
    /\ \E defs \in DefinitionLists(Len(written) + 1) :
          wtxn' = [state |-> "open", call |-> Len(written) + 1, defs |-> defs,
                   next |-> 1, txn |-> definitions]
    /\ UNCHANGED <<definitions, written, observed>>
    /\ UNCHANGED <<lvars, rows, clock, qout, pager, kvars, xvars, cvars, dvars>>

\* for _, definition := range definitions { txn.Insert(...) }: a failed
\* Insert returns EXECUTION, and the deferred Abort runs.
WriteSchemaInsert ==
    /\ wtxn.state = "open"
    /\ wtxn.next <= Len(wtxn.defs)
    /\ IF wtxn.defs[wtxn.next].indexable
       THEN /\ wtxn' = [wtxn EXCEPT !.next = @ + 1,
                                    !.txn = TxnInsert(@, wtxn.defs[wtxn.next])]
            /\ UNCHANGED <<definitions, written>>
       ELSE /\ definitions' = TxnAbort(definitions, wtxn.txn)
            /\ written' = Append(written, [defs |-> wtxn.defs, err |-> "EXECUTION"])
            /\ wtxn' = NoWrite
    /\ UNCHANGED observed
    /\ UNCHANGED <<lvars, rows, clock, qout, pager, kvars, xvars, cvars, dvars>>

\* txn.Commit(); return nil
WriteSchemaCommit ==
    /\ wtxn.state = "open"
    /\ wtxn.next > Len(wtxn.defs)
    /\ definitions' = TxnCommit(definitions, wtxn.txn)
    /\ written' = Append(written, [defs |-> wtxn.defs, err |-> "nil"])
    /\ wtxn' = NoWrite
    /\ UNCHANGED observed
    /\ UNCHANGED <<lvars, rows, clock, qout, pager, kvars, xvars, cvars, dvars>>

\* A reader's transaction, at any moment: it sees the committed table.
ReadSchemaTable ==
    /\ observed' = definitions
    /\ observed' # observed
    /\ UNCHANGED <<definitions, wtxn, written>>
    /\ UNCHANGED <<lvars, rows, clock, qout, pager, kvars, xvars, cvars, dvars>>

NextSchemaWriter ==
    WriteSchemaBegin \/ WriteSchemaInsert \/ WriteSchemaCommit \/ ReadSchemaTable

SpecSchemaWriter == InitReader /\ [][NextSchemaWriter]_vars

(***************************************************************************)
(* Properties of the lookup-entity command                                 *)
(***************************************************************************)
ToSet(s) == {s[i] : i \in 1..Len(s)}

NoDuplicates(s) == \A i, j \in 1..Len(s) : s[i] = s[j] => i = j

Occurrences(s, x) == Cardinality({i \in 1..Len(s) : s[i] = x})

Enumerated == 1..Len(ids)

AllowedIds == {ids[k] : k \in {j \in Enumerated : wOut[j] = "ALLOWED"}}

DeniedIds == {ids[k] : k \in {j \in Enumerated : wOut[j] = "DENIED"}}

\* The id enumeration or a Check has returned an error.
ErrProduced == enumErr # "nil" \/ \E k \in Slots : wOut[k] \in Errors

AllChecksReturned == nextIdx > Len(ids) /\ \A k \in Enumerated : wOut[k] # "none"

\* C1: when Execute returns a response, its EntityIds are exactly the
\* enumerated ids whose Check returned ALLOWED, each once, and no DENIED id;
\* every enumerated id has been checked by then.
C1_ExecuteReturnsAllowedIds ==
    (mode = "execute" /\ ret = "nil")
        => /\ ~ErrProduced
           /\ AllChecksReturned
           /\ ToSet(entityIDs) = AllowedIds
           /\ NoDuplicates(entityIDs)
           /\ ToSet(entityIDs) \cap DeniedIds = {}

C1_Witness ==
    /\ mode = "execute"
    /\ ret = "nil"
    /\ ToSet(entityIDs) = {1, 2}
    /\ DeniedIds # {}

\* C2: whenever the enumeration or a Check of a batched Execute has returned
\* an error and the request can take no further step, Execute has returned
\* an error to its caller.
C2_ExecuteReturnsTheError ==
    (mode = "execute" /\ ErrProduced /\ ~ENABLED LookupStep) => ret \in Errors

\* C3: Stream never returns nil once the enumeration or a Check has returned
\* an error, and after such an error Stream eventually returns a non-nil
\* error.
C3_StreamReturnsError ==
    /\ []((mode = "stream" /\ ret = "nil") => ~ErrProduced)
    /\ (mode = "stream" /\ ErrProduced) ~> (ret \in Errors)

C3_Witness ==
    /\ mode = "stream"
    /\ gErr = "ERR_STORAGE"
    /\ ret = "ERR_STORAGE"
    /\ sent # <<>>
    /\ ckPc = "done"

\* C4: in every state of a Stream run every id passed to server.Send is an
\* enumerated id whose Check returned ALLOWED, and no id was passed twice.
C4_SentIdsAreAllowed ==
    mode = "stream" => ToSet(sent) \subseteq AllowedIds /\ NoDuplicates(sent)

C4_Witness ==
    /\ mode = "stream"
    /\ ret \in Errors
    /\ ErrProduced
    /\ Len(sent) >= 2

\* A run of Stream in which some call has failed.
SomeCallFailed == ErrProduced \/ ret \in Errors

\* C5: Stream returns nil only after every spawned Check has returned and
\* every ALLOWED id has been passed to server.Send, and a Stream run in
\* which no call fails eventually returns nil.
C5_StreamEndsWhenDrained ==
    /\ []((mode = "stream" /\ ret = "nil")
            => /\ AllChecksReturned
               /\ InFlight = {}
               /\ ToSet(sent) = AllowedIds
               /\ resultChan = <<>>)
    /\ <>(mode = "stream" => (ret = "nil" \/ SomeCallFailed))

C5_Witness ==
    /\ mode = "stream"
    /\ ret = "nil"
    /\ Len(ids) = MaxIds
    /\ Len(sent) >= 2
    /\ DeniedIds # {}

\* C6: at most PoolLimit Checks of one lookup request are in flight.
C6_InFlightBounded == Cardinality(InFlight) <= PoolLimit

C6_Witness ==
    /\ ckPc = "range"
    /\ nextIdx <= Len(ids)
    /\ Cardinality(InFlight) = PoolLimit

\* The ids the consumer has received from the result channel.
Delivered == entityIDs \o sent

\* C7: the result channel never holds more than ResultCap ids, and every id
\* whose Check returned ALLOWED is in exactly one place: with its closure
\* waiting to send, in the channel, or delivered to the consumer.
C7_ChannelBoundedNoLoss ==
    /\ Len(resultChan) <= ResultCap
    /\ \A k \in Enumerated :
          wOut[k] = "ALLOWED"
            => (IF wPc[k] = "send" THEN 1 ELSE 0)
                 + Occurrences(resultChan, ids[k])
                 + Occurrences(Delivered, ids[k]) = 1
    /\ \A k \in Enumerated :
          wOut[k] # "ALLOWED"
            => Occurrences(resultChan, ids[k]) + Occurrences(Delivered, ids[k]) = 0

C7_Witness ==
    /\ Len(resultChan) = ResultCap
    /\ \E k \in Enumerated : wPc[k] = "send"
    /\ Cardinality(AllowedIds) > ResultCap

\* C8: once the context is cancelled a running Stream eventually returns,
\* and after Stream has received the cancellation error it passes no
\* further id to server.Send.
C8_StreamStopsOnCancel ==
    /\ [][observedCancel => sent' = sent]_vars
    /\ (mode = "stream" /\ cancelled) ~> (pc = "returned")

C8_Witness ==
    /\ mode = "stream"
    /\ observedCancel
    /\ ret = "ERR_CANCELED"
    /\ resultChan # <<>>
    /\ sent # <<>>

\* The snapshot token and schema version of the request: the caller's when
\* supplied, otherwise those obtained from HeadSnapshot / HeadVersion.
EffectiveSnap ==
    IF caller.SnapToken # EmptyString THEN caller.SnapToken ELSE obtained.snap

EffectiveVersion ==
    IF caller.SchemaVersion # EmptyString THEN caller.SchemaVersion ELSE obtained.ver

\* C9: the id enumeration and every Check of one request are issued with the
\* caller's tenant and with the request's one snapshot token and schema
\* version, which are resolved before the checker is started.
C9_OneSnapshotPerRequest ==
    /\ ckPc # "idle" => /\ request.SnapToken = EffectiveSnap
                        /\ request.SchemaVersion = EffectiveVersion
                        /\ EffectiveSnap # EmptyString
                        /\ EffectiveVersion # EmptyString
    /\ enumArgs # <<>> => enumArgs = <<caller.TenantId, caller.EntityType, EffectiveSnap>>
    /\ \A k \in Slots :
          wOut[k] # "none"
            => /\ wArgs[k].TenantId = caller.TenantId
               /\ wArgs[k].SnapToken = EffectiveSnap
               /\ wArgs[k].SchemaVersion = EffectiveVersion

C9_Witness ==
    /\ caller.SnapToken = EmptyString
    /\ caller.SchemaVersion = EmptyString
    /\ obtained.snap = SnapEncode(0)
    /\ headSnap = 1
    /\ \E j, k \in Slots : j # k /\ wOut[j] # "none" /\ wOut[k] # "none"

(***************************************************************************)
(* Properties of the relationship readers                                  *)
(***************************************************************************)
\* The rows of a tenant that match a filter and were committed at or before
\* the snapshot.
VisibleRows(table, tenant, f, snap) ==
    SelectSeq(table, LAMBDA r : /\ r.TenantID = tenant
                               /\ FilterMatches(f, r)
                               /\ r.CreatedTx <= SnapDecode(snap).value)

QueryReturned ==
    /\ qout.op = "QueryRelationships"
    /\ qout.err = "nil"
    /\ SnapDecode(qout.snap).err = "nil"

\* C10: QueryRelationships(tenant, filter, S), on either back end, returns
\* exactly the matching tuples committed at or before S.
C10_SnapshotVisibility ==
    QueryReturned
        => qout.tuples = Tuples(VisibleRows(SubSeq(rows, 1, qout.nrows),
                                            qout.tenant, qout.filter, qout.snap))

(***************************************************************************)
(* Properties of the relationship readers                                  *)
(***************************************************************************)
\* The rows of one tenant, with their row ids.
OfTenant(table, tenant) == SelectSeq(table, LAMBDA r : r.TenantID = tenant)

\* What a reader call returned: tuples, continuous token, and ids.
Returned(q) == [tuples |-> q.tuples, ct |-> q.ct, ids |-> ToSet(q.ids)]

\* What the call q returns, fault-free, when the table is `table`.
CallOn(table, q) ==
    CASE q.op = "QueryRelationships" /\ q.backend = "memory" ->
           [tuples |-> MemoryQueryRelationships(table, q.tenant, q.filter, q.snap,
                                                "none").tuples,
            ct |-> <<>>, ids |-> {}]
      [] q.op = "QueryRelationships" /\ q.backend = "postgres" ->
           [tuples |-> PostgresQueryRelationships(table, q.tenant, q.filter, q.snap,
                                                  "none").tuples,
            ct |-> <<>>, ids |-> {}]
      [] q.op = "ReadRelationships" /\ q.backend = "memory" ->
           LET res == MemoryReadRelationships(table, q.tenant, q.filter, q.snap,
                                              q.size, q.token, "none")
           IN [tuples |-> res.tuples, ct |-> res.ct, ids |-> {}]
      [] q.op = "ReadRelationships" /\ q.backend = "postgres" ->
           LET res == PostgresReadRelationships(table, q.tenant, q.filter, q.snap,
                                                q.size, q.token, "none")
           IN [tuples |-> res.tuples, ct |-> res.ct, ids |-> {}]
      [] q.op = "GetUniqueEntityIDsByEntityType" /\ q.backend = "memory" ->
           [tuples |-> <<>>, ct |-> <<>>,
            ids |-> ToSet(MemoryGetUniqueEntityIDs(table, q.tenant, q.typ, q.snap,
                                                   "none").ids)]
      [] q.op = "GetUniqueEntityIDsByEntityType" /\ q.backend = "postgres" ->
           [tuples |-> <<>>, ct |-> <<>>,
            ids |-> SelectDistinctEntityID(table, q.tenant, q.typ,
                                           SnapDecode(q.snap).value)]

\* C11: a reader call for tenant T that succeeds (QueryRelationships,
\* ReadRelationships, GetUniqueEntityIDsByEntityType, on either back end)
\* returns what it would return if the table held only the rows of T: the
\* rows of the other tenants do not change its result.
C11_TenantIsolation ==
    (qout.op # "none" /\ qout.err = "nil")
        => Returned(qout) = CallOn(OfTenant(rows, qout.tenant), qout)

RECURSIVE Flatten(_)
Flatten(pages) ==
    IF pages = <<>> THEN <<>> ELSE Head(pages) \o Flatten(Tail(pages))

IsPrefix(s, t) == Len(s) <= Len(t) /\ s = SubSeq(t, 1, Len(s))

\* The tuples of the pager's tenant that its filter selects, in ascending
\* row-id order (every row is visible under the head snapshot it took).
PagerMatching == Tuples(MatchingRows(rows, pager.tenant, pager.filter))

\* C12: paging through ReadRelationships over an unchanged store with a
\* fixed filter and a page size >= 1, from the empty token on: every page
\* has at most pageSize tuples; the pages read so far are, in order, the
\* first matching tuples in ascending row-id order (each once, nothing
\* else); and the token returned is empty exactly when no matching tuple
\* remains.
C12_PaginationComplete ==
    pager.pages # <<>> =>
        /\ pager.err = "nil"
        /\ \A i \in 1..Len(pager.pages) : Len(pager.pages[i]) <= pager.size
        /\ IsPrefix(Flatten(pager.pages), PagerMatching)
        /\ (pager.token = NoopToken) <=> (Flatten(pager.pages) = PagerMatching)

\* Every row of the table is visible under the snapshot token.
AllVisible(table, snap) ==
    /\ SnapDecode(snap).err = "nil"
    /\ \A i \in 1..Len(table) : SnapshotQuery(table[i], SnapDecode(snap).value)

\* C13: for the same stored tuples, all visible under the snapshot, and the
\* same tenant, filter, page size and continuous token, a ReadRelationships
\* call that succeeds on the in-memory and on the relational reader returns
\* the same page of tuples and the same continuous token from both.
C13_BackendsAgree ==
    (qout.op = "ReadRelationships" /\ AllVisible(rows, qout.snap)) =>
        LET m == MemoryReadRelationships(rows, qout.tenant, qout.filter, qout.snap,
                                         qout.size, qout.token, "none")
            p == PostgresReadRelationships(rows, qout.tenant, qout.filter, qout.snap,
                                           qout.size, qout.token, "none")
        IN (m.err = "nil" /\ p.err = "nil") => (m.tuples = p.tuples /\ m.ct = p.ct)

\* The entity ids that have at least one tuple of the type under the tenant
\* in the snapshot.
EntityIDsUnder(table, tenant, typ, snap) ==
    {table[i].EntityID : i \in {j \in 1..Len(table) :
        /\ table[j].TenantID = tenant
        /\ table[j].EntityType = typ
        /\ SnapshotQuery(table[j], SnapDecode(snap).value)}}

\* C14: GetUniqueEntityIDsByEntityType(tenant, type, snap), when it
\* succeeds, returns each entity id that has at least one tuple of that
\* type under the tenant in snapshot snap, exactly once, and no other id.
C14_UniqueEntityIDs ==
    (/\ qout.op = "GetUniqueEntityIDsByEntityType"
     /\ qout.err = "nil"
     /\ SnapDecode(qout.snap).err = "nil")
        => /\ NoDuplicates(qout.ids)
           /\ ToSet(qout.ids) = EntityIDsUnder(rows, qout.tenant, qout.typ, qout.snap)

\* The base.ErrorCode values the readers return.
ErrorCodes ==
    {"ERROR_CODE_EXECUTION", "ERROR_CODE_SQL_BUILDER",
     "ERROR_CODE_TYPE_CONVERSATION", "ERROR_CODE_INVALID_CONTINUOUS_TOKEN"}

\* C15: every error a RelationshipReader operation returns is one of the
\* stable error codes; an error of the storage underneath (begin, scan,
\* commit, token decoding) is never handed to the caller as it is.
C15_StableErrorCodes ==
    qout.op # "none" => qout.err \in ErrorCodes \cup {"nil"}

(***************************************************************************)
(* Properties of the cache keys                                            *)
(***************************************************************************)
\* C16: two Check requests that differ in tenant, schema version, snapshot,
\* entity, permission or subject never share a cache key string, whatever
\* characters their fields contain: an entry GetCheckKey finds was stored
\* for a request with the same six fields.
C16_KeySeparation ==
    kout.found => kout.by = KeyFields(kout.req)

\* The request `new` is the request `old` with only the schema version, or
\* only the snapshot token, changed.
Advanced(old, new) ==
    \/ /\ old.SchemaVersion # new.SchemaVersion
       /\ [old EXCEPT !.SchemaVersion = new.SchemaVersion] = new
    \/ /\ old.SnapToken # new.SnapToken
       /\ [old EXCEPT !.SnapToken = new.SnapToken] = new

\* C17: a Check request that differs from the request of a cached entry
\* only in its schema version, or only in its snapshot token, has a
\* different cache key, and GetCheckKey for it does not return that entry.
C17_AdvancedKeyDiffers ==
    kout.op = "GetCheckKey" =>
        \A e \in cache :
            Advanced(e.by, KeyFields(kout.req))
                => (e.key # kout.key /\ ~(kout.found /\ kout.by = e.by))

\* GetCheckKey ran while the cache held an entry of the old schema version
\* and an entry of the old snapshot of its request.
C17_Witness ==
    /\ kout.op = "GetCheckKey"
    /\ \E e \in cache :
          /\ e.by.SchemaVersion # kout.req.SchemaVersion
          /\ Advanced(e.by, KeyFields(kout.req))
    /\ \E e \in cache :
          /\ e.by.SnapToken # kout.req.SnapToken
          /\ Advanced(e.by, KeyFields(kout.req))

\* C18: while the cache retains the entry SetCheckKey stored for a request,
\* GetCheckKey returns its response and true for every request with the
\* same tenant, schema version, snapshot, entity, permission and subject,
\* whatever its depth and exclusion flag; and GetCheckKey returns
\* (nil, false) when the cache holds nothing under the key SetCheckKey
\* derives for the request.
C18_CacheRoundTrip ==
    kout.op = "GetCheckKey" =>
        /\ \A e \in cache :
              e.by = KeyFields(kout.req) => (kout.found /\ kout.resp = e.resp)
        /\ (\A e \in cache : e.key # HashHex(SetCheckKeyString(kout.req)))
              => (~kout.found /\ kout.resp = "nil")

\* GetCheckKey hit the entry of its six fields with a depth and an exclusion
\* flag that no Check starts with.
C18_Witness ==
    /\ kout.found
    /\ kout.by = KeyFields(kout.req)
    /\ kout.req.Depth = 19
    /\ kout.req.Exclusion

\* C19: Checks that map to one cache key produce one decision: a
\* SetCheckKey that writes under a key the cache already holds writes the
\* response that is there, in every interleaving of the writers.
C19_WritersAgree ==
    [][\A e \in cache : \A f \in cache' : e.key = f.key => e.resp = f.resp]_vars

(***************************************************************************)
(* Properties of the expand command                                        *)
(***************************************************************************)
\* The tree the test expects for Expand(doc:1, read).
DriveExpected ==
    ExpandNode("UNION",
        <<ExpandNode("UNION",
              <<ExpandLeaf(Entity("doc", "1"), "owner", <<Subject(USER, "2", "")>>),
                ExpandNode("UNION",
                    <<ExpandLeaf(Entity("folder", "1"), "collaborator",
                                 <<Subject(USER, "1", ""), Subject(USER, "3", "")>>)>>)>>),
          ExpandNode("UNION",
              <<ExpandLeaf(Entity("organization", "1"), "admin",
                           <<Subject(USER, "1", "")>>)>>)>>)

\* The subjects of the tuples of entity#relation, in storage order.
SubjectsOf(store, entity, relation) ==
    LET ts == QueryTuples(store, entity, relation)
    IN [i \in 1..Len(ts) |-> LeafSubject(ts[i].Subject)]

\* The tree is a leaf for entity#relation with the stored subjects.
IsLeafOf(tree, store, entity, relation) ==
    /\ tree.node = "leaf"
    /\ tree.target = [Entity |-> entity, Relation |-> relation]
    /\ tree.subjects = SubjectsOf(store, entity, relation)

\* The tree has the shape of the child: node for Rewrite with the same
\* operation and as many children, in order; leaf for a relation; UNION
\* node with one leaf per walked tuple for TupleToUserSet. (The relations
\* the actions of the drive schema name are relations, not actions.)
RECURSIVE HasShape(_, _, _, _)
HasShape(tree, child, store, entity) ==
    CASE child.kind = "rewrite" ->
           /\ tree.node = "expand"
           /\ tree.op = child.op
           /\ Len(tree.children) = Len(child.children)
           /\ \A i \in 1..Len(child.children) :
                 HasShape(tree.children[i], child.children[i], store, entity)
      [] child.kind = "computed" -> IsLeafOf(tree, store, entity, child.relation)
      [] child.kind = "ttus" ->
           LET ts == QueryTuples(store, entity, child.tupleSet)
           IN /\ tree.node = "expand"
              /\ tree.op = "UNION"
              /\ Len(tree.children) = Len(ts)
              /\ \A i \in 1..Len(ts) :
                    IsLeafOf(tree.children[i], store,
                             Entity(ts[i].Subject.Type, ts[i].Subject.Id),
                             child.computed)

\* C20: Expand keeps the shape of the action: a Rewrite becomes a node with
\* the same operation and its children in the same order, a leaf naming a
\* relation becomes a leaf with target entity#relation and the subjects of
\* its tuples in storage order, a TupleToUserSet leaf becomes a UNION node
\* with one child per walked tuple; and on the drive sample
\* Expand(doc:1, read) is the tree the test expects.
C20_ExpandKeepsShape ==
    xout.op = "Expand" =>
        /\ IF xout.permission \in DriveRelations[xout.entity.Type]
           THEN IsLeafOf(xout.tree, xstore, xout.entity, xout.permission)
           ELSE HasShape(xout.tree, DriveActions[xout.entity.Type][xout.permission],
                         xstore, xout.entity)
        /\ (xstore = DriveTuples /\ xout.entity = Entity("doc", "1")
              /\ xout.permission = "read")
              => xout.tree = DriveExpected

\* Expand(doc:1, read) has returned on the store of the test.
C20_Witness ==
    /\ xout.op = "Expand"
    /\ xstore = DriveTuples
    /\ xout.entity = Entity("doc", "1")
    /\ xout.permission = "read"

(***************************************************************************)
(* Properties of the check command                                         *)
(***************************************************************************)
\* A Check of doc:1 on the drive sample's schema and tuple set, with no
\* failing read and a budget that reaches the relations of the linked
\* entities.
DriveCheck(permission, id) ==
    /\ cout.op = "Check"
    /\ cschema = "drive"
    /\ cstore = DriveTuples
    /\ cout.fault = {}
    /\ cout.depth > 1
    /\ cout.entity = Entity("doc", "1")
    /\ cout.permission = permission
    /\ cout.subject = Subject(USER, id, "")

Decided(r, can) == r.can = can /\ r.err = "nil"

\* C21: on the drive sample, Check(doc:1, read, u) is ALLOWED for user:1,
\* user:2 and user:3 and DENIED for user:4, and Check(doc:1, update, user:2)
\* is DENIED.
C21_DriveDecisions ==
    /\ \A id \in {"1", "2", "3"} :
          DriveCheck("read", id) => Decided(cout.result, "ALLOWED")
    /\ DriveCheck("read", "4") => Decided(cout.result, "DENIED")
    /\ DriveCheck("update", "2") => Decided(cout.result, "DENIED")

C21_Witness ==
    /\ DriveCheck("read", "3")
    /\ cout.order = "last to first"
    /\ Decided(cout.result, "ALLOWED")

SameResult(r, q) == r.can = q.can /\ r.err = q.err

\* C22: the result of a Check (its decision, or its error) is the same
\* under every order of completion of the sibling sub-checks, and when the
\* children of the rewrites are permuted.
C22_OrderInvariant ==
    cout.again.can # "none" => SameResult(cout.again, cout.result)

\* The recursive sub-checks of a result respect the budget of a request of
\* the given depth: each runs with a remaining depth strictly smaller than
\* its caller's, and no sub-check is started from depth zero.
WithinBudget(r, depth) ==
    \A c \in r.calls :
        /\ c.Depth < c.From
        /\ c.Depth >= 0
        /\ c.From > 0
        /\ c.From <= depth

\* C23: a Check returns on every schema and store, cyclic ones included:
\* each recursive sub-check runs with a strictly smaller remaining depth,
\* and a Check started at depth zero returns DENIED, tagged DEPTH_EXCEEDED,
\* without a sub-check.
C23_DepthDecreases ==
    cout.op = "Check" =>
        /\ WithinBudget(cout.result, cout.depth)
        /\ cout.depth = 0 =>
              /\ cout.result.can = "DENIED"
              /\ cout.result.exceeded
              /\ cout.result.calls = {}

\* The walk doc:1 -> parent doc:2 -> parent doc:1 uses up the budget.
C23_Witness ==
    /\ cschema = "loop"
    /\ cout.op = "Check"
    /\ cout.permission = "view"
    /\ cout.depth = MaxDepth
    /\ cout.result.exceeded
    /\ \E c \in cout.result.calls :
          c.Depth = 0 /\ c.Permission = "view" /\ c.Entity.Type = "doc"

\* C24: when the depth budget is used up anywhere during a Check, the
\* decision the Check returns is DENIED, also when the exhausted sub-check
\* sits under a leaf with the exclusion flag.
C24_DepthFailSafe ==
    (cout.op = "Check" /\ cout.result.exceeded) => cout.result.can = "DENIED"

Negates(r, q) == r.can = "ALLOWED" <=> q.can = "DENIED"

\* C25: for the same entity, subject, snapshot and schema, the decision of
\* an action defined as `not A` is the negation of the decision of A.
C25_NotNegates ==
    (cout.operand.can # "none" /\ cout.result.err = "nil" /\ cout.operand.err = "nil")
        => Negates(cout.result, cout.operand)

\* C25, amended: the decision of `not A` is the negation of the decision of
\* A when both Checks return a decision and neither used up its depth
\* budget.
C25_NotNegatesWithinBudget ==
    (/\ cout.operand.can # "none"
     /\ cout.result.err = "nil" /\ cout.operand.err = "nil"
     /\ ~cout.result.exceeded /\ ~cout.operand.exceeded)
        => Negates(cout.result, cout.operand)

\* `hidden = not view` is ALLOWED for a subject that view denies, and
\* `open = not banned` is DENIED for a banned subject.
C25_Witness ==
    /\ cout.operand.can # "none"
    /\ ~cout.result.exceeded /\ ~cout.operand.exceeded
    /\ \/ /\ cout.permission = "hidden"
          /\ Decided(cout.result, "ALLOWED")
          /\ Decided(cout.operand, "DENIED")
          /\ cstore # <<>>
       \/ /\ cout.permission = "open"
          /\ Decided(cout.result, "DENIED")
          /\ Decided(cout.operand, "ALLOWED")

(***************************************************************************)
(* Properties of the schema compiler                                       *)
(***************************************************************************)
CompiledOK == compiled.op = "Compile" /\ compiled.err = "nil"

\* The action of the schema's last entity: its tokens, and its compiled
\* child.
LastEntity == schemaSrc[Len(schemaSrc)]

SourceTokens == LastEntity.Actions[1].Tokens

CompiledChild ==
    compiled.definitions[Len(schemaSrc)].Actions[LastEntity.Actions[1].Name].Child

\* The atoms of the model's expressions.
AllAtoms == OrganizationAtoms \cup RepositoryAtoms

\* The leaf an atom of one or two segments stands for.
ExpectedLeaf(atom) ==
    LET idents == SelectSeq(atom, LAMBDA t : t \notin {"not", "."})
    IN Leaf(atom[1] = "not",
            IF Len(idents) = 1 THEN ComputedUserSet(idents[1])
            ELSE TupleToUserSet(idents[1], idents[2]))

\* C26: Compile keeps the structure of an expression as written:
\* `a op (b op' c)` becomes Rewrite(op, [a, Rewrite(op', [b, c])]) and
\* `(a op' b) op c` becomes Rewrite(op, [Rewrite(op', [a, b]), c]), also
\* when op' is op; a single operand becomes a bare Leaf. The tests' Cases
\* 3, 4 and 7 compile to the definitions the tests expect.
C26_StructurePreserved ==
    CompiledOK =>
        /\ \A a, b, c \in AllAtoms : \A op, inner \in Operators :
              /\ SourceTokens = a \o <<op>> \o Parenthesised(b \o <<inner>> \o c)
                    => CompiledChild =
                          Rewrite(RewriteOperation(op),
                              <<ExpectedLeaf(a),
                                Rewrite(RewriteOperation(inner),
                                        <<ExpectedLeaf(b), ExpectedLeaf(c)>>)>>)
              /\ SourceTokens = Parenthesised(a \o <<inner>> \o b) \o <<op>> \o c
                    => CompiledChild =
                          Rewrite(RewriteOperation(op),
                              <<Rewrite(RewriteOperation(inner),
                                        <<ExpectedLeaf(a), ExpectedLeaf(b)>>),
                                ExpectedLeaf(c)>>)
        /\ \A a \in AllAtoms : SourceTokens = a => CompiledChild = ExpectedLeaf(a)
        /\ schemaSrc = Case3Source => compiled.definitions = Case3Expected
        /\ schemaSrc = Case4Source => compiled.definitions = Case4Expected
        /\ schemaSrc = Case7Source => compiled.definitions = Case7Expected

\* `owner or (parent.update or not parent.owner)`: the inner union stays a
\* child of the outer one.
C26_Witness ==
    /\ CompiledOK
    /\ schemaSrc = Case7Source
    /\ CompiledChild.op = "UNION"
    /\ Len(CompiledChild.children) = 2
    /\ CompiledChild.children[2].kind = "rewrite"
    /\ CompiledChild.children[2].op = "UNION"

\* The terms of a chain without parentheses, in source order.
RECURSIVE ChainTerms(_, _)
ChainTerms(tokens, term) ==
    IF tokens = <<>> THEN <<term>>
    ELSE IF Head(tokens) \in Operators
         THEN <<term>> \o ChainTerms(Tail(tokens), <<>>)
         ELSE ChainTerms(Tail(tokens), Append(term, Head(tokens)))

Unparenthesised(tokens) == \A i \in 1..Len(tokens) : tokens[i] \notin {"(", ")"}

\* C27: an unparenthesised chain of one operator compiles to a single
\* Rewrite of that operator whose children are the leaves of the chain's
\* terms, in source order.
C27_ChainFlattened ==
    (CompiledOK /\ Unparenthesised(SourceTokens))
        => LET terms == ChainTerms(SourceTokens, <<>>)
           IN Len(terms) > 1 =>
                 CompiledChild =
                    Rewrite(RewriteOperation(SourceTokens[Len(terms[1]) + 1]),
                            [i \in 1..Len(terms) |-> ExpectedLeaf(terms[i])])

\* `owner or parent.update or not parent.owner`
C27_Witness ==
    /\ CompiledOK
    /\ SourceTokens = <<"owner", "or", "parent", ".", "update", "or",
                        "not", "parent", ".", "owner">>
    /\ CompiledChild.kind = "rewrite"
    /\ Len(CompiledChild.children) = 3


\* The offences of a schema, read off its source in source order: the
\* entities in order, in each entity the references of its relations and
\* then the operands of its actions, left to right.
WithoutParentheses(tokens) == SelectSeq(tokens, LAMBDA t : t \notin {"(", ")"})

Segments(term) == SelectSeq(term, LAMBDA t : t \notin {"not", "."})

Operands(tokens) == ChainTerms(WithoutParentheses(tokens), <<>>)

OperandOffence(st, term) ==
    LET segments == Segments(term)
        names == {st.Relations[i].Name : i \in 1..Len(st.Relations)}
                    \cup {st.Actions[i].Name : i \in 1..Len(st.Actions)}
    IN IF Len(segments) = 1
       THEN IF segments[1] \in names THEN "nil" ELSE "UNDEFINED_RELATION_REFERENCE"
       ELSE IF Len(segments) > 2 THEN "NOT_SUPPORTED_RELATION_WALK" ELSE "nil"

ReferenceOffence(schema, references, i) ==
    IF references[i].Relation = ""
    THEN IF Cardinality({j \in 1..i : references[j].Relation = ""}) > 1
         THEN "RELATION_REFERENCE_MUST_HAVE_ONE_ENTITY_REFERENCE"
         ELSE "nil"
    ELSE IF \E k \in 1..Len(schema) :
               /\ schema[k].Name = references[i].Type
               /\ \E m \in 1..Len(schema[k].Relations) :
                     schema[k].Relations[m].Name = references[i].Relation
         THEN "nil"
         ELSE "RELATION_REFERENCE_NOT_FOUND_IN_ENTITY_REFERENCES"

EntityOffences(schema, st) ==
    Flatten([r \in 1..Len(st.Relations) |->
                [i \in 1..Len(st.Relations[r].References) |->
                    ReferenceOffence(schema, st.Relations[r].References, i)]])
      \o Flatten([a \in 1..Len(st.Actions) |->
                LET operands == Operands(st.Actions[a].Tokens)
                IN [i \in 1..Len(operands) |-> OperandOffence(st, operands[i])]])

Offences ==
    SelectSeq(Flatten([e \in 1..Len(schemaSrc) |->
                          EntityOffences(schemaSrc, schemaSrc[e])]),
              LAMBDA o : o # "nil")

HasOffence(err) == \E i \in 1..Len(Offences) : Offences[i] = err

FirstOffence == IF Offences = <<>> THEN "nil" ELSE Offences[1]

Rejected(err) == compiled.err = err /\ compiled.definitions = <<>>

\* C28 as stated: Compile returns definitions only if every bare
\* identifier of every action names a relation or action of its entity,
\* and a schema with an undefined name in an action is rejected with
\* UNDEFINED_RELATION_REFERENCE and no definitions.
C28_UndefinedRejected ==
    compiled.op = "Compile" =>
        /\ CompiledOK => ~HasOffence("UNDEFINED_RELATION_REFERENCE")
        /\ HasOffence("UNDEFINED_RELATION_REFERENCE")
              => Rejected("UNDEFINED_RELATION_REFERENCE")

\* C28, amended: Compile returns definitions only if every bare identifier
\* of every action names a relation or action of its entity; a schema with
\* an undefined name in an action is rejected without definitions, and
\* with UNDEFINED_RELATION_REFERENCE when the undefined name is the
\* schema's first offence.
C28_FirstUndefinedRejected ==
    compiled.op = "Compile" =>
        /\ CompiledOK => ~HasOffence("UNDEFINED_RELATION_REFERENCE")
        /\ HasOffence("UNDEFINED_RELATION_REFERENCE")
              => compiled.err # "nil" /\ compiled.definitions = <<>>
        /\ FirstOffence = "UNDEFINED_RELATION_REFERENCE"
              => Rejected("UNDEFINED_RELATION_REFERENCE")

\* Case 5: `maintainer or admin` in an entity without maintainer.
C28_Witness ==
    /\ schemaSrc = Case5Source
    /\ FirstOffence = "UNDEFINED_RELATION_REFERENCE"
    /\ compiled.op = "Compile"
    /\ Rejected("UNDEFINED_RELATION_REFERENCE")


\* The operands of the schema's actions that walk a relation, with their
\* segments, and the TupleToUserSet leaves of the compiled actions.
Walks ==
    LET operands ==
          UNION {UNION {{Operands(schemaSrc[e].Actions[a].Tokens)[i] :
                            i \in 1..Len(Operands(schemaSrc[e].Actions[a].Tokens))} :
                        a \in 1..Len(schemaSrc[e].Actions)} :
                 e \in 1..Len(schemaSrc)}
    IN {s \in {Segments(o) : o \in operands} : Len(s) > 1}

RECURSIVE Leaves(_)
Leaves(child) ==
    IF child.kind = "rewrite"
    THEN UNION {Leaves(child.children[i]) : i \in 1..Len(child.children)}
    ELSE {child}

CompiledLeaves ==
    UNION {UNION {Leaves(compiled.definitions[e].Actions[n].Child) :
                     n \in DOMAIN compiled.definitions[e].Actions} :
           e \in 1..Len(compiled.definitions)}

OneHop ==
    /\ \A w \in Walks : Len(w) <= 2
    /\ {l.body : l \in {m \in CompiledLeaves : m.body.kind = "ttus"}}
          = {TupleToUserSet(w[1], w[2]) : w \in {v \in Walks : Len(v) = 2}}

\* C29 as stated: a schema with an operand of more than one dot is
\* rejected with NOT_SUPPORTED_RELATION_WALK, and every TupleToUserSet of
\* a compiled schema walks exactly one hop.
C29_WalkRejected ==
    compiled.op = "Compile" =>
        /\ CompiledOK => OneHop
        /\ HasOffence("NOT_SUPPORTED_RELATION_WALK")
              => compiled.err = "NOT_SUPPORTED_RELATION_WALK"

\* C29, amended: a schema with an operand of more than one dot is
\* rejected, with NOT_SUPPORTED_RELATION_WALK when that operand is the
\* schema's first offence; every TupleToUserSet of a compiled schema is
\* the one hop `a.b` of an operand of the source.
C29_FirstWalkRejected ==
    compiled.op = "Compile" =>
        /\ CompiledOK => OneHop
        /\ HasOffence("NOT_SUPPORTED_RELATION_WALK")
              => compiled.err # "nil" /\ compiled.definitions = <<>>
        /\ FirstOffence = "NOT_SUPPORTED_RELATION_WALK"
              => Rejected("NOT_SUPPORTED_RELATION_WALK")

\* Case 6: `parent.parent.admin or admin`.
C29_Witness ==
    /\ schemaSrc = Case6Source
    /\ <<"parent", "parent", "admin">> \in Walks
    /\ compiled.op = "Compile"
    /\ Rejected("NOT_SUPPORTED_RELATION_WALK")

\* The references E#R of the schema's relations name a relation of E.
ReferencesFound ==
    \A e \in 1..Len(schemaSrc) : \A r \in 1..Len(schemaSrc[e].Relations) :
        \A i \in 1..Len(schemaSrc[e].Relations[r].References) :
            ReferenceOffence(schemaSrc, schemaSrc[e].Relations[r].References, i)
                # "RELATION_REFERENCE_NOT_FOUND_IN_ENTITY_REFERENCES"

\* The compiled relations keep their references as (type, relation), in
\* declaration order.
ReferencesKept ==
    \A e \in 1..Len(schemaSrc) : \A r \in 1..Len(schemaSrc[e].Relations) :
        LET rel == schemaSrc[e].Relations[r]
            kept == compiled.definitions[e].Relations[rel.Name].RelationReferences
        IN /\ Len(kept) = Len(rel.References)
           /\ \A i \in 1..Len(kept) :
                 /\ kept[i].Type = rel.References[i].Type
                 /\ kept[i].Relation = rel.References[i].Relation

BareReferences(rel) ==
    {i \in 1..Len(rel.References) : rel.References[i].Relation = ""}

AtMostOneBare ==
    \A e \in 1..Len(schemaSrc) : \A r \in 1..Len(schemaSrc[e].Relations) :
        Cardinality(BareReferences(schemaSrc[e].Relations[r])) <= 1

RECURSIVE LeafSeq(_)
LeafSeq(child) ==
    IF child.kind = "rewrite"
    THEN Flatten([i \in 1..Len(child.children) |-> LeafSeq(child.children[i])])
    ELSE <<child>>

\* A compiled child with every exclusion flag cleared.
RECURSIVE Positive(_)
Positive(child) ==
    IF child.kind = "rewrite"
    THEN Rewrite(child.op, [i \in 1..Len(child.children) |-> Positive(child.children[i])])
    ELSE Leaf(FALSE, child.body)

WithoutNot(tokens) == SelectSeq(tokens, LAMBDA t : t # "not")

\* C32: in a compiled schema the i-th leaf of an action has exclusion=true
\* exactly when the i-th operand of its expression is written with `not`,
\* and apart from the exclusion flags the compiled child is the one the
\* expression compiles to with every `not` removed.
C32_NotSetsExclusion ==
    CompiledOK =>
        /\ \A e \in 1..Len(schemaSrc) : \A a \in 1..Len(schemaSrc[e].Actions) :
              LET act == schemaSrc[e].Actions[a]
                  child == compiled.definitions[e].Actions[act.Name].Child
                  leaves == LeafSeq(child)
                  operands == Operands(act.Tokens)
              IN /\ Len(leaves) = Len(operands)
                 /\ \A i \in 1..Len(leaves) :
                       leaves[i].exclusion = (operands[i][1] = "not")
                 /\ Positive(child)
                       = CompileChildren(schemaSrc[e], Parse(WithoutNot(act.Tokens))).child
        /\ schemaSrc = Case7Source => compiled.definitions = Case7Expected

\* Case 7: of the leaves of `owner or (parent.update or not parent.owner)`
\* only the last one is an exclusion.
C32_Witness ==
    /\ CompiledOK
    /\ schemaSrc = Case7Source
    /\ LET leaves == LeafSeq(CompiledChild)
       IN /\ Len(leaves) = 3
          /\ ~leaves[1].exclusion
          /\ ~leaves[2].exclusion
          /\ leaves[3].exclusion
          /\ leaves[3].body = TupleToUserSet("parent", "owner")

(***************************************************************************)
(* Properties of the lookup-entity command: termination and frame          *)
(***************************************************************************)
\* C33: under fair scheduling Execute eventually returns, whatever the
\* enumeration and the Checks return.
C33_ExecuteReturns == <>(pc = "returned")

\* parallelChecker and every closure it spawned have finished (or were
\* never started).
CheckerFinished ==
    /\ ckPc \in {"idle", "done"}
    /\ \A k \in Slots : wPc[k] \in {"none", "done"}

\* C34: once Stream has returned, parallelChecker and all its closures
\* eventually finish.
C34_CheckerFinishes == (pc = "returned") ~> CheckerFinished

\* C35: a failed Check neither cancels nor skips its siblings: while ids
\* remain the next Check can still be started and a started Check can still
\* return; the group keeps the first error recorded; the error is put on
\* the error channel only after a Check has been started and has returned
\* for every enumerated id, and the result channel is closed only after
\* the error has been taken from the error channel.
C35_ErrorAfterAllChecks ==
    /\ []((gErr # "nil" /\ ckPc = "range")
            => /\ (nextIdx <= Len(ids) /\ GoAdmits) => ENABLED CkGo
               /\ \A k \in Slots : wPc[k] = "check" => ENABLED WCheck(k))
    /\ []((ckPc = "waitErrSend" \/ (gErr # "nil" /\ ckPc \in {"close", "done"}))
            => /\ AllChecksReturned
               /\ \A k \in 1..Len(ids) : wPc[k] = "done")
    /\ [](closed => ckPc = "done")
    /\ [][gErr # "nil" => gErr' = gErr]_vars
    /\ [][(ckPc' = "close" /\ ckPc # "close")
            => IF gErr = "nil" THEN ckPc = "range"
               ELSE ckPc = "waitErrSend" /\ ret' = gErr]_vars

\* The Check of the first id has failed, the Checks of the other ids were
\* started and have returned, and the error is being put on the channel.
C35_Witness ==
    /\ ckPc = "waitErrSend"
    /\ Len(ids) = MaxIds
    /\ wOut[1] \in Errors
    /\ \A k \in 2..MaxIds : wOut[k] \in {"ALLOWED", "DENIED"}
    /\ ~closed

\* Nothing of the fan-out has happened: parallelChecker was not spawned,
\* no enumeration was issued and no Check was started.
NoFanOut ==
    /\ ckPc = "idle"
    /\ enumArgs = <<>>
    /\ ids = <<>>
    /\ \A k \in Slots : wPc[k] = "none" /\ wOut[k] = "none"
    /\ resultChan = <<>>
    /\ ~closed

\* C36: when HeadSnapshot or HeadVersion fails, Execute and Stream return
\* that error at once, with no enumeration issued, no Check started and no
\* goroutine spawned; and nothing of the fan-out happens later.
C36_HeadFailureReturns ==
    /\ [][(pc \in {"snap", "schema"} /\ ret' # ret)
            => /\ ret' \in CallErrors
               /\ pc' = "returned"
               /\ NoFanOut'
               /\ request' = request]_vars
    /\ []((pc = "returned" /\ ckPc = "idle") => (ret \in Errors /\ NoFanOut))
    /\ []((pc \in {"snap", "schema", "spawn"}) => NoFanOut)
    /\ [][(pc = "returned" /\ ckPc = "idle") => UNCHANGED lvars]_vars

\* HeadVersion has failed after HeadSnapshot had succeeded.
C36_Witness ==
    /\ pc = "returned"
    /\ ret = "ERR_STORAGE"
    /\ obtained.snap # EmptyString
    /\ request.SchemaVersion = EmptyString
    /\ NoFanOut

\* C39: of the caller's request Execute and Stream change only the
\* snapshot token and the schema version, and only when the caller left
\* them empty: then they hold what HeadSnapshot / HeadVersion returned.  A
\* supplied value stays, and its head is not asked for (so resolving it
\* cannot fail).
C39_RequestFrame ==
    /\ request.TenantId = caller.TenantId
    /\ request.EntityType = caller.EntityType
    /\ request.Permission = caller.Permission
    /\ request.Subject = caller.Subject
    /\ request.Depth = caller.Depth
    /\ IF caller.SnapToken # EmptyString
       THEN request.SnapToken = caller.SnapToken /\ obtained.snap = EmptyString
       ELSE request.SnapToken = obtained.snap
    /\ IF caller.SchemaVersion # EmptyString
       THEN request.SchemaVersion = caller.SchemaVersion /\ obtained.ver = EmptyString
       ELSE request.SchemaVersion = obtained.ver
    /\ (caller.SnapToken # EmptyString /\ caller.SchemaVersion # EmptyString)
          => ~(pc = "returned" /\ ckPc = "idle")

\* A request with a schema version and no snapshot token has run to its
\* end after the heads advanced: the token is the head's, the version the
\* caller's.
C39_Witness ==
    /\ pc = "returned"
    /\ ret = "nil"
    /\ caller.SnapToken = EmptyString
    /\ request.SnapToken = SnapEncode(1)
    /\ caller.SchemaVersion = VersionOf(0)
    /\ request.SchemaVersion = VersionOf(0)
    /\ headVer = 1

(***************************************************************************)
(* Properties of the schema writer                                         *)
(***************************************************************************)
DefinitionsOf(defs) == {defs[i] : i \in 1..Len(defs)}

\* A view of the table that holds, of every call that has returned, all
\* its definitions or none of them, and none of the call in progress.
WholeCalls(table) ==
    /\ \A i \in 1..Len(written) :
          \/ DefinitionsOf(written[i].defs) \subseteq table
          \/ DefinitionsOf(written[i].defs) \cap table = {}
    /\ wtxn.state = "open" => DefinitionsOf(wtxn.defs) \cap table = {}

\* C37: after a WriteSchema call that returned nil all its definitions are
\* in the table; a call whose Insert failed returned EXECUTION and none of
\* its definitions is in the table; and what a reader sees never holds
\* only part of the definitions of one call.
C37_WriteSchemaAtomic ==
    /\ \A i \in 1..Len(written) :
          /\ written[i].err = "nil"
                => DefinitionsOf(written[i].defs) \subseteq definitions
          /\ written[i].err # "nil"
                => /\ written[i].err = "EXECUTION"
                   /\ DefinitionsOf(written[i].defs) \cap definitions = {}
          /\ written[i].err = "nil"
                <=> \A d \in DefinitionsOf(written[i].defs) : d.indexable
    /\ WholeCalls(definitions)
    /\ WholeCalls(observed)

\* The first call wrote two definitions; the second failed at its second
\* Insert, and a reader looked at the table afterwards.
C37_Witness ==
    /\ Len(written) = 2
    /\ written[1].err = "nil"
    /\ Len(written[1].defs) = 2
    /\ written[2].err = "EXECUTION"
    /\ Len(written[2].defs) = 2
    /\ written[2].defs[1].indexable
    /\ observed = DefinitionsOf(written[1].defs)
    /\ Cardinality(observed) = 2

(***************************************************************************)
(* Properties of the relationship readers: continuous tokens               *)
(***************************************************************************)
\* A continuous token that is not the encoding of anything, and one that
\* is the encoding of text other than a row id.
NotEncoded(token) == token # EmptyString /\ token[1] # "b64"

NotANumber(token) ==
    /\ token # EmptyString
    /\ token[1] = "b64"
    /\ \/ Len(token) = 1
       \/ \E i \in 2..Len(token) : \A d \in 1..Len(Digits) : Digits[d] # token[i]

\* What the call recorded in qout returns over a given table.
ReadOver(table) ==
    IF qout.backend = "memory"
    THEN MemoryReadRelationships(table, qout.tenant, qout.filter, qout.snap,
                                 qout.size, qout.token, "none")
    ELSE PostgresReadRelationships(table, qout.tenant, qout.filter, qout.snap,
                                   qout.size, qout.token, "none")

\* The call returned an error and no tuples, and what it returned does not
\* depend on the rows of the table.
RejectedUnread ==
    /\ qout.err # "nil"
    /\ qout.tuples = <<>>
    /\ \A table \in {<<>>, rows} :
          /\ ReadOver(table).err = qout.err
          /\ ReadOver(table).tuples = <<>>
          /\ ReadOver(table).ct = qout.ct

====
